---- MODULE Spec2Model ----
(***************************************************************************)
(* A model of heretic's scorer plugin core: the plugin loader              *)
(* (plugin.py), the per-round Context and the Scorer contract (scorer.py)  *)
(* and the Evaluator that orchestrates them (evaluator.py).                *)
(*                                                                         *)
(* Python strings are modelled as sequences of tokens.  A token is a       *)
(* maximal run of characters holding none of the characters the code       *)
(* inspects or inserts ('.', ':', '/', '_', " - "); each of those is a     *)
(* token of its own.  Two strings are equal iff their token sequences are. *)
(***************************************************************************)
EXTENDS Naturals, Integers, Sequences, FiniteSets, TLC

\* ------------------------------------------------------------------ bounds

\* scorers configured at most
MaxScorers == 2
\* get_scores() rounds and Context operations per phase, in the specification
\* of the rounds
MaxRounds == 2
MaxCtxOps == 2
\* the same two, in the specification of the construction
StartupRounds == 1
StartupOps == 1
\* load_plugin calls, and changes to the files, in the loader's specification
MaxLoads == 2
MaxEdits == 1

\* ----------------------------------------------------------------- strings

Dot == "."
Colon == ":"
Slash == "/"
PySuffix == <<".", "py">>

\* str.endswith
EndsWith(s, suf) ==
    /\ Len(s) >= Len(suf)
    /\ SubSeq(s, Len(s) - Len(suf) + 1, Len(s)) = suf

\* `t in s` for a one-character t
Contains(s, t) == \E i \in 1..Len(s) : s[i] = t

LastIndexOf(s, t) ==
    CHOOSE i \in 1..Len(s) : s[i] = t /\ \A j \in (i + 1)..Len(s) : s[j] # t

\* str.rsplit(t, 1) of a string that contains t
RSplit1(s, t) ==
    LET i == LastIndexOf(s, t)
    IN  <<SubSeq(s, 1, i - 1), SubSeq(s, i + 1, Len(s))>>

\* str.split(t): the parts between the occurrences of t, empty parts kept
RECURSIVE Split(_, _)
Split(s, t) ==
    IF ~Contains(s, t) THEN <<s>>
    ELSE LET i == CHOOSE k \in 1..Len(s) :
                      s[k] = t /\ \A j \in 1..(k - 1) : s[j] # t
         IN  <<SubSeq(s, 1, i - 1)>> \o Split(SubSeq(s, i + 1, Len(s)), t)

\* ------------------------------------------------------------------- paths
\* A pathlib.Path is its anchor (absolute or not) and its segments.  Parsing
\* drops empty segments and "." segments; resolve() folds ".." segments.

CurDirSeg == <<".">>
ParentSeg == <<".", ".">>

RECURSIVE DropTrivial(_)
DropTrivial(segs) ==
    IF segs = <<>> THEN <<>>
    ELSE IF Head(segs) = <<>> \/ Head(segs) = CurDirSeg
         THEN DropTrivial(Tail(segs))
         ELSE <<Head(segs)>> \o DropTrivial(Tail(segs))

Path(s) ==
    [absolute |-> (Len(s) > 0 /\ s[1] = Slash),
     segs     |-> DropTrivial(Split(s, Slash))]

\* Path.cwd() / p
JoinCwd(cwd, p) == [absolute |-> TRUE, segs |-> cwd.segs \o p.segs]

RECURSIVE FoldParents(_, _)
FoldParents(done, rest) ==
    IF rest = <<>> THEN done
    ELSE IF Head(rest) = ParentSeg
         THEN FoldParents(IF done = <<>> THEN <<>>
                          ELSE SubSeq(done, 1, Len(done) - 1), Tail(rest))
         ELSE FoldParents(Append(done, Head(rest)), Tail(rest))

\* Path.resolve() of an absolute path (the model's file system has no links)
Resolve(p) == [absolute |-> TRUE, segs |-> FoldParents(<<>>, p.segs)]

\* plugin.py lines 77-80
PluginPath(file_path, cwd) ==
    LET p == Path(file_path)
    IN  Resolve(IF p.absolute THEN p ELSE JoinCwd(cwd, p))

\* ------------------------------------------------------ classes and modules
\* What a module holds under a name: a class, or something that is no class.
\* A class carries what the loader, the contract check and the Evaluator read:
\* its bases, whether its own __dict__ holds __init__, the schema its
\* `settings` annotation names (NoSchema: no annotation) and its score_name
\* override (<<>>: the inherited Scorer.score_name).

NoSchema == "NoSchema"

ClassAttr(bases, defines_init, schema, score_name) ==
    [kind |-> "class", bases |-> bases, defines_init |-> defines_init,
     schema |-> schema, score_name |-> score_name]

ValueAttr ==
    [kind |-> "value", bases |-> {}, defines_init |-> FALSE,
     schema |-> NoSchema, score_name |-> <<>>]

NoAttr ==
    [kind |-> "none", bases |-> {}, defines_init |-> FALSE,
     schema |-> NoSchema, score_name |-> <<>>]

ScorerBases == {"Scorer", "Plugin"}

\* A class object: the attribute, the module object that defined it, its name.
ClassOf(module, class_name) ==
    [module |-> module.id, name |-> class_name,
     attr |-> module.attrs[class_name]]

NoClass == [module |-> [path |-> <<>>, gen |-> 0], name |-> <<>>, attr |-> NoAttr]

\* The importable packages of the installation: heretic's own scorers.
KLModuleName == <<"heretic", ".", "scorers", ".", "kl", "_", "divergence">>
RRModuleName == <<"heretic", ".", "scorers", ".", "refusal", "_", "rate">>

KLModule ==
    [id    |-> [path |-> KLModuleName, gen |-> 0],
     attrs |-> (<<"KLDivergence">> :>
                    ClassAttr(ScorerBases, FALSE, "KLSettings", <<"KL divergence">>))
               @@ (<<"Settings">> :> ClassAttr({"BaseModel"}, FALSE, NoSchema, <<>>))
               @@ (<<"Scorer">> :> ClassAttr(ScorerBases, TRUE, NoSchema, <<>>))
               @@ (<<"F">> :> ValueAttr)]

RRModule ==
    [id    |-> [path |-> RRModuleName, gen |-> 0],
     attrs |-> (<<"RefusalRate">> :>
                    ClassAttr(ScorerBases, FALSE, "RRSettings", <<"Refusals">>))
               @@ (<<"DEFAULT", "_", "REFUSAL", "_", "MARKERS">> :> ValueAttr)]

Importable == (KLModuleName :> KLModule) @@ (RRModuleName :> RRModule)

\* The plugin references the model loads.
RelPlain == <<"plug", ".", "py", ":", "Plain">>
DotRelPlain == <<".", "/", "plug", ".", "py", ":", "Plain">>
AbsPlain == <<"/", "w", "/", "plug", ".", "py", ":", "Plain">>
UpPlain == <<"/", "v", "/", ".", ".", "/", "w", "/", "plug", ".", "py", ":", "Plain">>
RelTuned == <<"plug", ".", "py", ":", "Tuned">>
RelCtor == <<"plug", ".", "py", ":", "Ctor">>
RelHelper == <<"plug", ".", "py", ":", "Helper">>
RelLimit == <<"plug", ".", "py", ":", "LIMIT">>
OtherPlain == <<"/", "v", "/", "plug", ".", "py", ":", "Plain">>
BarePath == <<"plug", ".", "py">>
NoClassName == <<"plug", ".", "py", ":">>
NotPyFile == <<"plug", ".", "txt", ":", "Plain">>
MissingFile == <<"gone", ".", "py", ":", "Plain">>
KLRef == KLModuleName \o <<".", "KLDivergence">>
RRRef == RRModuleName \o <<".", "RefusalRate">>
KLBaseRef == KLModuleName \o <<".", "Scorer">>
NoDotRef == <<"KLDivergence">>
NoModuleRef == <<"nowhere", ".", "Thing">>

\* The contents a plugin file can have: what its top-level code defines, the
\* load_plugin call that code makes after its definitions (<<>>: none) and
\* whether it raises at its end.
Content(raises, nested, attrs) ==
    [raises |-> raises, nested |-> nested, attrs |-> attrs]

GoodAttrs ==
    (<<"Plain">> :> ClassAttr(ScorerBases, FALSE, NoSchema, <<>>))
    @@ (<<"Tuned">> :> ClassAttr(ScorerBases, FALSE, "TunedSettings", <<>>))
    @@ (<<"Ctor">> :> ClassAttr(ScorerBases, TRUE, NoSchema, <<>>))
    @@ (<<"Helper">> :> ClassAttr({}, FALSE, NoSchema, <<>>))
    @@ (<<"LIMIT">> :> ValueAttr)

GoodPlug == Content(FALSE, <<>>, GoodAttrs)

OtherPlug ==
    Content(FALSE, <<>>,
            <<"Plain">> :> ClassAttr(ScorerBases, FALSE, NoSchema, <<>>))

BrokenPlug == Content(TRUE, <<>>, GoodAttrs)

\* plugin files whose code loads a class of /w/plug.py
SelfRefPlug == Content(FALSE, AbsPlain, GoodAttrs)
SelfRefBroken == Content(TRUE, AbsPlain, GoodAttrs)

NoFile == Content(TRUE, <<>>, <<>>)

AbsPath(segs) == [absolute |-> TRUE, segs |-> segs]
WorkDir == AbsPath(<< <<"w">> >>)
OtherDir == AbsPath(<< <<"v">> >>)
PlugFileName == <<"plug", ".", "py">>
WorkPlug == AbsPath(<< <<"w">>, PlugFileName >>)
OtherPlugPath == AbsPath(<< <<"v">>, PlugFileName >>)
FilePaths == {WorkPlug, OtherPlugPath}

\* Path.is_file
IsFile(fs, p) == p \in DOMAIN fs /\ fs[p] # NoFile

\* ------------------------------------------------------------- load_plugin

\* getattr(module, class_name, None) and inspect.isclass
ValidateClass(module, class_name) ==
    IF class_name \in DOMAIN module.attrs
       /\ module.attrs[class_name].kind = "class"
    THEN ClassOf(module, class_name)
    ELSE NoClass

\* How a load_plugin call ends: the error it raises ("": none) or the class
\* it returns, sys.modules after it, and what happened inside it: the
\* exec_module calls and the file-form loads that returned a class.
LoadResult(err, cls, mods, execs, returns) ==
    [err |-> err, cls |-> cls, sys_modules |-> mods, execs |-> execs,
     returns |-> returns]

\* issubclass check and return, plugin.py lines 124-127
CheckBase(cls, base_class, mods, execs, returns) ==
    IF cls = NoClass
    THEN LoadResult("ValueError: no class", NoClass, mods, execs, returns)
    ELSE IF base_class \notin cls.attr.bases
    THEN LoadResult("TypeError: not a subclass", NoClass, mods, execs, returns)
    ELSE LoadResult("", cls, mods, execs, returns)

\* history: a file-form load of path p returned r.cls
Returning(p, r) ==
    IF r.err = ""
    THEN [r EXCEPT !.returns = Append(@, [path |-> p, module |-> r.cls.module,
                                          name |-> r.cls.name])]
    ELSE r

\* sys.modules with one more entry
WithModule(mods, p, module) ==
    [q \in DOMAIN mods \cup {p} |-> IF q = p THEN module ELSE mods[q]]

\* a loader that leaves the entry of a failed execution in sys.modules
KeepEntry(mods, p) == mods

\* sys.modules.pop
Without(mods, p) == [q \in DOMAIN mods \ {p} |-> mods[q]]

RECURSIVE LoadPlugin(_, _, _, _, _, _)

\* The file branch from the sys.modules lookup on, plugin.py lines 88-110.
\* gen numbers the module objects created so far.  The module is cached
\* before exec_module runs the file's code, so a load_plugin call made by
\* that code finds it; when the code raises the entry is removed again.
LoadFile(p, class_name, base_class, cwd, fs, mods, gen) ==
    IF p \in DOMAIN mods
    THEN Returning(p, CheckBase(ValidateClass(mods[p], class_name), base_class,
                                mods, <<>>, <<>>))
    ELSE LET module == [id |-> [path |-> p.segs, gen |-> gen + 1],
                        attrs |-> fs[p].attrs]
             cached == WithModule(mods, p, module)
             inner == IF fs[p].nested = <<>>
                      THEN LoadResult("", NoClass, cached, <<>>, <<>>)
                      ELSE LoadPlugin(fs[p].nested, "Plugin", cwd, fs, cached,
                                      gen + 1)
             ok == inner.err = "" /\ ~fs[p].raises
             run == [path |-> p, module |-> module.id, ok |-> ok]
             execs == <<run>> \o inner.execs
         IN  IF ~ok
             THEN LoadResult(IF inner.err # "" THEN inner.err
                             ELSE "Exception in plugin",
                             NoClass, Without(inner.sys_modules, p), execs,
                             inner.returns)
             ELSE Returning(p, CheckBase(ValidateClass(module, class_name),
                                         base_class, inner.sys_modules, execs,
                                         inner.returns))

\* load_plugin(name, base_class), plugin.py lines 37-127
LoadPlugin(name, base_class, cwd, fs, mods, gen) ==
    IF EndsWith(name, PySuffix)
    THEN LoadResult("ValueError: append the class name", NoClass, mods, <<>>, <<>>)
    ELSE IF Contains(name, Colon)
    THEN LET file_path == RSplit1(name, Colon)[1]
             class_name == RSplit1(name, Colon)[2]
         IN  IF ~EndsWith(file_path, PySuffix) \/ class_name = <<>>
             THEN LoadResult("ValueError: file form", NoClass, mods, <<>>, <<>>)
             ELSE IF ~IsFile(fs, PluginPath(file_path, cwd))
             THEN LoadResult("ImportError: no file", NoClass, mods, <<>>, <<>>)
             ELSE LoadFile(PluginPath(file_path, cwd), class_name, base_class,
                           cwd, fs, mods, gen)
    ELSE IF ~Contains(name, Dot)
    THEN LoadResult("ValueError: import form", NoClass, mods, <<>>, <<>>)
    ELSE LET module_name == RSplit1(name, Dot)[1]
             class_name == RSplit1(name, Dot)[2]
         IN  IF module_name \notin DOMAIN Importable
             THEN LoadResult("ImportError: module", NoClass, mods, <<>>, <<>>)
             ELSE CheckBase(ValidateClass(Importable[module_name], class_name),
                            base_class, mods, <<>>, <<>>)

\* ------------------------------------------------- the loader's process state

VARIABLES
    cwd,          \* Path.cwd()
    files,        \* the plugin files on disk: path -> content
    sys_modules,  \* sys.modules, the heretic_plugin_<path> entries: path -> module
    gen,          \* module objects created so far by module_from_spec
    runs,         \* history: the exec_module calls made: {[path, module, ok]}
    returned,     \* history: the classes file-form loads returned:
                  \* {[path, module, name]}
    last_load,    \* history: the last load_plugin call and how it ended
    n_loads,      \* load_plugin calls made
    n_edits       \* changes made to the files and the working directory

loader_vars ==
    <<cwd, files, sys_modules, gen, runs, returned, last_load, n_loads, n_edits>>

RefPool ==
    {RelPlain, DotRelPlain, AbsPlain, UpPlain, RelTuned, RelCtor, RelHelper,
     RelLimit, OtherPlain, BarePath, NoClassName, NotPyFile, MissingFile,
     KLRef, RRRef, KLBaseRef, NoDotRef, NoModuleRef}

ContentPool ==
    {GoodPlug, OtherPlug, BrokenPlug, NoFile, SelfRefPlug, SelfRefBroken}

NoLoad == [name |-> <<>>, cwd |-> WorkDir, err |-> "", cls |-> NoClass, ran |-> FALSE]

RangeOf(seq) == {seq[k] : k \in 1..Len(seq)}

\* What one load_plugin call does to the process state.
ApplyLoad(name, r) ==
    /\ sys_modules' = r.sys_modules
    /\ gen' = gen + Len(r.execs)
    /\ runs' = runs \cup RangeOf(r.execs)
    /\ returned' = returned \cup RangeOf(r.returns)
    /\ last_load' = [name |-> name, cwd |-> cwd, err |-> r.err, cls |-> r.cls,
                     ran |-> r.execs # <<>>]

LoaderInit ==
    /\ cwd = WorkDir
    /\ \E content \in ContentPool :
           files = (WorkPlug :> content) @@ (OtherPlugPath :> OtherPlug)
    /\ sys_modules = <<>>
    /\ gen = 0
    /\ runs = {}
    /\ returned = {}
    /\ last_load = NoLoad
    /\ n_loads = 0
    /\ n_edits = 0

\* ------------------------------------------------------ configuration tree
\* settings.model_extra: nested TOML tables.  A node is a table (a dict), a
\* leaf (any other value) or None (what dict.get gives for a missing key).

Table(kv) == [t |-> "table", kv |-> kv, v |-> ""]
Leaf(v) == [t |-> "leaf", kv |-> <<>>, v |-> v]
NoneNode == [t |-> "none", kv |-> <<>>, v |-> ""]
EmptyDict == Table(<<>>)

DictGet(node, key) == IF key \in DOMAIN node.kv THEN node.kv[key] ELSE NoneNode

\* the loop of get_plugin_namespace, plugin.py lines 22-26; NoneNode stands
\* for the early `return {}` as well, which the caller maps the same way
RECURSIVE Descend(_, _)
Descend(cur, parts) ==
    IF parts = <<>> THEN cur
    ELSE IF cur.t # "table" THEN NoneNode
    ELSE Descend(DictGet(cur, Head(parts)), Tail(parts))

\* get_plugin_namespace, plugin.py lines 18-34: [err, table]
get_plugin_namespace(extra, namespace) ==
    LET cur == Descend(extra, Split(namespace, Dot))
    IN  IF cur.t = "none" THEN [err |-> "", table |-> EmptyDict]
        ELSE IF cur.t # "table"
        THEN [err |-> "TypeError: namespace is no table", table |-> EmptyDict]
        ELSE [err |-> "", table |-> cur]

\* a resolver that merges every key of the table
AllKeys(table, allowed) == table

\* {k: v for k, v in raw_table.items() if k in allowed_keys}
FilterKeys(table, allowed) ==
    Table([k \in DOMAIN table.kv \cap allowed |-> table.kv[k]])

\* the fields each settings schema declares (model_fields)
SchemaFields(schema) ==
    CASE schema = "KLSettings" -> {<<"prompts">>}
      [] schema = "RRSettings" ->
            {<<"refusal", "_", "markers">>, <<"prompts">>,
             <<"print", "_", "responses">>}
      [] schema = "TunedSettings" -> {<<"level">>, <<"opts">>}
      [] OTHER -> {}

\* Optional[str]: None is <<>>, a string s is <<s>>.
None == <<>>
Some(s) == <<s>>
Truthy(o) == o # None /\ o[1] # <<>>
\* `x or None`
OrNone(o) == IF Truthy(o) THEN o ELSE None

\* utils.deep_merge_dicts(base, override): nested tables merge key by key,
\* any other value of override replaces the value of base
RECURSIVE deep_merge_dicts(_, _)
deep_merge_dicts(base, override) ==
    Table([k \in DOMAIN base.kv \cup DOMAIN override.kv |->
              IF k \notin DOMAIN override.kv THEN base.kv[k]
              ELSE IF k \notin DOMAIN base.kv THEN override.kv[k]
              ELSE IF base.kv[k].t = "table" /\ override.kv[k].t = "table"
              THEN deep_merge_dicts(base.kv[k], override.kv[k])
              ELSE override.kv[k]])

RawResult(err, raw, lookups) == [err |-> err, raw |-> raw, lookups |-> lookups]

\* the loop over the namespaces, evaluator.py lines 98-101
RECURSIVE MergeNamespaces(_, _, _, _, _)
MergeNamespaces(extra, namespaces, allowed, merged, lookups) ==
    IF namespaces = <<>> THEN RawResult("", merged, lookups)
    ELSE LET ns == Head(namespaces)
             got == get_plugin_namespace(extra, ns)
         IN  IF got.err # "" THEN RawResult(got.err, merged, Append(lookups, ns))
             ELSE MergeNamespaces(extra, Tail(namespaces), allowed,
                                  deep_merge_dicts(merged, FilterKeys(got.table, allowed)),
                                  Append(lookups, ns))

\* Evaluator._get_scorer_settings_raw, evaluator.py lines 69-103
get_scorer_settings_raw(extra, scorer_cls, instance_name) ==
    IF scorer_cls.attr.schema = NoSchema THEN RawResult("", EmptyDict, <<>>)
    ELSE IF Truthy(instance_name) /\ Contains(instance_name[1], Dot)
    THEN RawResult("ValueError: invalid instance_name", EmptyDict, <<>>)
    ELSE LET base == <<"scorer", ".">> \o scorer_cls.name
             namespaces == IF Truthy(instance_name)
                           THEN <<base, base \o <<"_">> \o instance_name[1]>>
                           ELSE <<base>>
         IN  MergeNamespaces(extra, namespaces,
                             SchemaFields(scorer_cls.attr.schema), EmptyDict, <<>>)

\* a merge that works in place: the nested tables of [scorer.<Class>] take
\* the entries of the instance table's nested tables
merged_in_place(extra, scorer_cls, instance_name) ==
    LET tables == DictGet(extra, <<"scorer">>)
        base == DictGet(tables, scorer_cls.name)
        inst == IF Truthy(instance_name)
                THEN DictGet(tables, scorer_cls.name \o <<"_">> \o instance_name[1])
                ELSE NoneNode
        shared == {f \in SchemaFields(scorer_cls.attr.schema) :
                      /\ f \in DOMAIN base.kv /\ f \in DOMAIN inst.kv
                      /\ base.kv[f].t = "table" /\ inst.kv[f].t = "table"}
        merged == Table([f \in DOMAIN base.kv |->
                            IF f \in shared
                            THEN deep_merge_dicts(base.kv[f], inst.kv[f])
                            ELSE base.kv[f]])
    IN  IF shared = {} THEN extra
        ELSE Table([extra.kv EXCEPT ![<<"scorer">>] =
                       Table([tables.kv EXCEPT ![scorer_cls.name] = merged])])

\* settings.model_extra once _get_scorer_settings_raw has run: the loop of
\* evaluator.py lines 95-101 reads the tables and builds the record in
\* dicts of its own
tree_after_resolve(extra, scorer_cls, instance_name) == extra

\* what pydantic rejects: a value of the wrong type somewhere in the record
RECURSIVE Invalid(_)
Invalid(node) ==
    \/ node.t = "leaf" /\ node.v = "bad"
    \/ node.t = "table" /\ \E k \in DOMAIN node.kv : Invalid(node.kv[k])

NoSettings == [schema |-> NoSchema, values |-> EmptyDict]

\* Plugin.validate_settings, plugin.py lines 195-208: [err, settings]
validate_settings(cls, raw_namespace) ==
    IF cls.attr.schema = NoSchema THEN [err |-> "", settings |-> NoSettings]
    ELSE IF Invalid(raw_namespace)
    THEN [err |-> "ValidationError", settings |-> NoSettings]
    ELSE [err |-> "", settings |-> [schema |-> cls.attr.schema,
                                    values |-> raw_namespace]]

\* a contract that accepts every class
any_contract(cls) == ""

\* Scorer.validate_contract, scorer.py lines 89-102
validate_contract(cls) ==
    IF cls.attr.defines_init THEN "TypeError: must not define __init__" ELSE ""

\* Scorer.__init__, scorer.py lines 104-125: the error it raises, if any
ScorerNew(cls, settings) ==
    IF cls.attr.schema # NoSchema /\ settings = NoSettings
    THEN "ValueError: requires settings"
    ELSE IF cls.attr.schema # NoSchema /\ settings.schema # cls.attr.schema
    THEN "TypeError: settings of the wrong model"
    ELSE ""

\* a scorer whose class does not override score_name
inherited_score_name(scorer) == scorer.cls.name

\* Scorer.score_name, scorer.py lines 81-87, and its overrides
score_name(scorer) ==
    IF scorer.cls.attr.score_name # <<>> THEN scorer.cls.attr.score_name
    ELSE scorer.cls.name

\* Evaluator._format_score_name, evaluator.py lines 55-58
format_score_name(scorer, instance_name) ==
    IF Truthy(instance_name)
    THEN score_name(scorer) \o <<" - ">> \o instance_name[1]
    ELSE score_name(scorer)

\* the external labeling key, evaluator.py lines 145-149
scorer_key(scorer_cls, instance_name) ==
    IF ~Truthy(instance_name) THEN scorer_cls.name
    ELSE scorer_cls.name \o <<".">> \o instance_name[1]

\* --------------------------------------------------- the Evaluator's state

VARIABLES
    settings_scorers,  \* settings.scorers: the ScorerConfig list
    model_extra,       \* settings.model_extra: the configuration tree
    pc,                \* where the Evaluator is: "new", "load", "instantiate",
                       \* "init_start", "init", "baseline_start", "baseline",
                       \* "ready", "scoring", "rebaseline" (a caller's own
                       \* get_baseline_scores()), or "failed" (__init__ raised)
    idx,               \* the loop index of the running for statement
    scorer_configs,    \* self._scorer_configs
    scorer_classes,    \* the local list of _load_scorers
    scorers,           \* self.scorers (while _load_scorers runs: its local list)
    scorer_instance_labels,  \* self._scorer_instance_labels
    scorer_names,      \* the local set of _load_scorers
    baseline_scores,   \* self.baseline_scores: None until __init__ sets it
    scores,            \* the local list of get_scores / get_baseline_scores
    result,            \* what the last get_scores() returned, None if it raised
    error,             \* the exception the last Evaluator call raised, "" if none
    ctx,               \* the Context of the running phase: [id, cache]
    n_ctx,             \* Context objects created so far
    ops_left,          \* Context operations the scorers may still make on ctx
    call,              \* the scorer method that is running: [op, k]
    model_version,     \* the subject system's state: its number of modifications
    subject_used,      \* history: some batched subject-system call was made
    subject_calls,     \* history: batched subject-system calls made for ctx, by kind
    ctx_calls,         \* history: Context operations called on ctx, by kind
    lookups,           \* history: get_plugin_namespace calls: <<[k, ns]>>
    n_instantiated,    \* history: scorer objects constructed
    init_count,        \* history: init calls per scorer
    baseline_count,    \* history: get_baseline_score calls per scorer
    round_calls,       \* history: scorer methods invoked with the current ctx
    round_ctxs,        \* history: the ids of the Contexts, in creation order
    asked,             \* history: get_responses requests on ctx, per batch
    fetched,           \* history: get_responses_batched calls for ctx, per batch
    seen_before,       \* history: the batches requested on earlier Contexts
    last_op,           \* history: the last Context operation and what it returned
    n_rounds,          \* get_scores() calls made
    n_rebase,          \* get_baseline_scores() calls made on the built Evaluator
    direct,            \* history: the last Scorer some caller constructed
                       \* itself: [cls, settings, err]
    access,            \* history: the last attribute scorer code read from an
                       \* object it holds: [obj, attr, result]
    refusal            \* history: the last RefusalRate.get_score call:
                       \* [prompts, responses, outcome]

eval_vars ==
    <<settings_scorers, model_extra, pc, idx, scorer_configs, scorer_classes,
      scorers, scorer_instance_labels, scorer_names, baseline_scores, scores,
      result, error, ctx, n_ctx, ops_left, call, model_version, subject_used,
      subject_calls, ctx_calls, lookups, n_instantiated, init_count, baseline_count, round_calls,
      round_ctxs, asked, fetched, seen_before, last_op, n_rounds,
                   n_rebase, direct, access, refusal>>

vars == <<loader_vars, eval_vars>>

\* ScorerConfig
Config(plugin, instance_name, direction, scale) ==
    [plugin |-> plugin, instance_name |-> instance_name,
     direction |-> direction, scale |-> scale]

Directions == {"NOT_SET", "MINIMIZE", "MAXIMIZE"}

LabelX == <<"x">>
LabelXY == <<"x", ".", "y">>

\* The ScorerConfigs the model configures: both reference forms, classes with
\* and without a settings schema, labels with and without a '.', every
\* direction, malformed references and a class with its own constructor.
ConfigPool ==
    {Config(KLRef, None, "MINIMIZE", 2),
     Config(KLRef, Some(LabelX), "NOT_SET", 1),
     Config(KLRef, Some(LabelX), "MAXIMIZE", 2),
     Config(RelTuned, Some(LabelXY), "MAXIMIZE", 1),
     Config(RelPlain, Some(LabelXY), "MINIMIZE", 1),
     Config(AbsPlain, Some(LabelXY), "NOT_SET", 2),
     Config(RelPlain, Some(<<>>), "NOT_SET", 1),
     Config(OtherPlain, None, "MAXIMIZE", 1),
     Config(RelCtor, None, "MINIMIZE", 1),
     Config(BarePath, None, "MINIMIZE", 1),
     Config(NoDotRef, Some(LabelX), "MAXIMIZE", 1)}

\* The configurations the round-by-round specification runs.
RoundPool ==
    {Config(KLRef, None, "MINIMIZE", 2),
     Config(RelPlain, Some(LabelX), "NOT_SET", 1)}

SeqsUpTo(S, n) == UNION {[1..m -> S] : m \in 0..n}

\* The configuration trees: none, and one with class-wide and per-instance
\* tables, an undeclared key and a value the schema rejects.
PlainTree == Table(<<"scorer">> :> Table(
    (<<"KLDivergence">> :> Table((<<"prompts">> :> Leaf("base"))
                                 @@ (<<"future">> :> Leaf("ignored"))))
    @@ (<<"KLDivergence", "_", "x">> :> Table(<<"prompts">> :> Leaf("bad")))
    @@ (<<"Tuned">> :> Table(<<"level">> :> Leaf("low")))))

TreePool == {EmptyDict, PlainTree}

LabelY == <<"y">>

\* The configurations whose settings the specification of the settings
\* resolution resolves: instances of Tuned, whose schema declares the fields
\* level and opts.
SettingsPool ==
    {Config(RelTuned, None, "MINIMIZE", 1),
     Config(RelTuned, Some(LabelX), "MAXIMIZE", 1),
     Config(RelTuned, Some(LabelY), "NOT_SET", 1)}

\* The configuration trees of the settings resolution: every choice of the
\* tables [scorer.Tuned], [scorer.Tuned_x] and [scorer.Tuned_y]; NoneNode: the
\* table is not there.
SettingsTrees ==
    LET BaseTables ==
            {NoneNode,
             Table(<<"level">> :> Leaf("low")),
             Table((<<"level">> :> Leaf("low"))
                   @@ (<<"opts">> :> Table((<<"a">> :> Leaf("1"))
                                           @@ (<<"b">> :> Leaf("1"))))
                   @@ (<<"future">> :> Leaf("z"))),
             Table(<<"opts">> :> Leaf("flat"))}
        InstanceTablesX ==
            {NoneNode,
             Table(<<"level">> :> Leaf("high")),
             Table((<<"opts">> :> Table((<<"b">> :> Leaf("2"))
                                        @@ (<<"c">> :> Leaf("2"))))
                   @@ (<<"extra">> :> Leaf("q"))),
             Table(<<"opts">> :> Leaf("flat2")),
             Leaf("no table")}
        InstanceTablesY ==
            {NoneNode,
             Table(<<"opts">> :> Table(<<"a">> :> Leaf("9")))}
        \* a table without the keys whose value is None
        Present(kv) ==
            Table([k \in {q \in DOMAIN kv : kv[q] # NoneNode} |-> kv[k]])
        SettingsTree(base, x, y) ==
            Table(<<"scorer">> :>
                      Present((<<"Tuned">> :> base)
                              @@ (<<"Tuned", "_", "x">> :> x)
                              @@ (<<"Tuned", "_", "y">> :> y)))
    IN  {SettingsTree(base, x, y) :
            base \in BaseTables, x \in InstanceTablesX, y \in InstanceTablesY}

NoCtx == [id |-> 0, cache |-> <<>>]
NoCall == [op |-> "", k |-> 0]
NoCalls == [responses |-> 0, logits |-> 0, residuals |-> 0]
NoOp == [kind |-> "", prompts |-> <<>>, hit |-> FALSE, value |-> <<>>, ctx |-> 0]
NoDirect == [cls |-> NoClass, settings |-> NoSettings, err |-> ""]
NoAccess == [obj |-> "", attr |-> "", result |-> ""]
NoScore == [name |-> <<>>, value |-> <<0, 1>>, cli_display |-> <<0, 1>>,
            md_display |-> <<0, 1>>]
NoRefusal ==
    [markers |-> <<>>, responses |-> <<>>, called |-> FALSE, err |-> "",
     score |-> NoScore]

EvalInit(lists, trees) ==
    /\ settings_scorers \in lists
    /\ model_extra \in trees
    /\ pc = "new"
    /\ idx = 0
    /\ scorer_configs = <<>>
    /\ scorer_classes = <<>>
    /\ scorers = <<>>
    /\ scorer_instance_labels = <<>>
    /\ scorer_names = {}
    /\ baseline_scores = None
    /\ scores = <<>>
    /\ result = None
    /\ error = ""
    /\ ctx = NoCtx
    /\ n_ctx = 0
    /\ ops_left = 0
    /\ call = NoCall
    /\ model_version = 0
    /\ subject_used = FALSE
    /\ subject_calls = NoCalls
    /\ ctx_calls = NoCalls
    /\ lookups = <<>>
    /\ n_instantiated = 0
    /\ init_count = <<>>
    /\ baseline_count = <<>>
    /\ round_calls = <<>>
    /\ round_ctxs = <<>>
    /\ asked = <<>>
    /\ fetched = <<>>
    /\ seen_before = {}
    /\ last_op = NoOp
    /\ n_rounds = 0
    /\ n_rebase = 0
    /\ direct = NoDirect
    /\ access = NoAccess
    /\ refusal = NoRefusal

\* The process an Evaluator is built in: the plugin files in place, nothing
\* loaded yet.
ProcessInit ==
    /\ cwd = WorkDir
    /\ files = (WorkPlug :> GoodPlug) @@ (OtherPlugPath :> OtherPlug)
    /\ sys_modules = <<>>
    /\ gen = 0
    /\ runs = {}
    /\ returned = {}
    /\ last_load = NoLoad
    /\ n_loads = 0
    /\ n_edits = 0

\* ------------------------------------------------------------ construction

round_vars ==
    <<ctx, n_ctx, ops_left, round_calls, round_ctxs, asked, fetched,
      seen_before, last_op, subject_calls, ctx_calls>>

input_vars == <<settings_scorers, model_extra, direct, access, refusal>>

Zeros(n) == [k \in 1..n |-> 0]

\* Evaluator.__init__ up to the check of _load_scorers that some scorer is
\* configured, evaluator.py lines 27-34 and 105-113
Construct ==
    /\ pc = "new"
    /\ scorer_configs' = settings_scorers
    /\ IF settings_scorers = <<>>
       THEN pc' = "failed" /\ error' = "ValueError: no scorers configured"
            /\ idx' = idx
       ELSE pc' = "load" /\ error' = "" /\ idx' = 1
    /\ init_count' = Zeros(Len(settings_scorers))
    /\ baseline_count' = Zeros(Len(settings_scorers))
    /\ UNCHANGED <<loader_vars, input_vars, round_vars, scorer_classes, scorers,
                   scorer_instance_labels, scorer_names, lookups, n_instantiated,
                   baseline_scores, scores, result, call, model_version,
                   subject_used, n_rounds,
                   n_rebase>>

\* one turn of the first loop of _load_scorers, evaluator.py lines 116-119
LoadStep ==
    /\ pc = "load"
    /\ LET cfg == scorer_configs[idx]
           r == LoadPlugin(cfg.plugin, "Scorer", cwd, files, sys_modules, gen)
           err == IF r.err # "" THEN r.err ELSE validate_contract(r.cls)
       IN  /\ ApplyLoad(cfg.plugin, r)
           /\ n_loads' = n_loads + 1
           /\ IF err # ""
              THEN /\ pc' = "failed" /\ error' = err
                   /\ UNCHANGED <<idx, scorer_classes>>
              ELSE /\ scorer_classes' = Append(scorer_classes, r.cls)
                   /\ error' = error
                   /\ IF idx = Len(scorer_configs)
                      THEN pc' = "instantiate" /\ idx' = 1
                      ELSE pc' = pc /\ idx' = idx + 1
    /\ UNCHANGED <<cwd, files, n_edits, input_vars, round_vars, scorer_configs,
                   scorers, scorer_instance_labels, scorer_names, lookups,
                   n_instantiated, baseline_scores, scores, result, call,
                   model_version, subject_used, init_count, baseline_count,
                   n_rounds,
                   n_rebase>>

Scorer(cls, settings, id) == [cls |-> cls, settings |-> settings, id |-> id]

\* a uniqueness check that records no key
forget_name(names, key) == names

\* scorer_names.add(scorer_key), evaluator.py line 155
add_name(names, key) == names \cup {key}

\* one turn of the second loop of _load_scorers, evaluator.py lines 129-158;
\* `inits` are the init calls made once the turn is over
InstantiateBody(inits) ==
    /\ pc = "instantiate"
    /\ init_count' = inits
    /\ LET scorer_cls == scorer_classes[idx]
           instance_name == OrNone(scorer_configs[idx].instance_name)
           raw == get_scorer_settings_raw(model_extra, scorer_cls, instance_name)
           val == validate_settings(scorer_cls, raw.raw)
           new_err == ScorerNew(scorer_cls, val.settings)
           key == scorer_key(scorer_cls, instance_name)
           built == raw.err = "" /\ val.err = ""
           err == IF raw.err # "" THEN raw.err
                  ELSE IF val.err # "" THEN val.err
                  ELSE IF new_err # "" THEN new_err
                  ELSE IF key \in scorer_names
                  THEN "ValueError: duplicate scorer instance name"
                  ELSE ""
       IN  /\ lookups' = lookups \o [j \in 1..Len(raw.lookups) |->
                                        [k |-> idx, ns |-> raw.lookups[j]]]
           /\ model_extra' = tree_after_resolve(model_extra, scorer_cls,
                                                instance_name)
           /\ n_instantiated' = IF built THEN n_instantiated + 1 ELSE n_instantiated
           /\ IF err # ""
              THEN /\ pc' = "failed" /\ error' = err
                   /\ UNCHANGED <<idx, scorers, scorer_instance_labels, scorer_names>>
              ELSE /\ scorer_names' = add_name(scorer_names, key)
                   /\ scorers' = Append(scorers,
                                        Scorer(scorer_cls, val.settings, n_instantiated + 1))
                   /\ scorer_instance_labels' =
                          Append(scorer_instance_labels, instance_name)
                   /\ error' = error
                   /\ IF idx = Len(scorer_classes)
                      THEN pc' = "init_start" /\ idx' = 1
                      ELSE pc' = pc /\ idx' = idx + 1
    /\ UNCHANGED <<loader_vars, settings_scorers, direct, access, refusal,
                   round_vars, scorer_configs,
                   scorer_classes, baseline_scores, scores, result, call,
                   model_version, subject_used, baseline_count, n_rounds,
                   n_rebase>>

\* an Evaluator that runs init(ctx) as soon as the scorer is constructed
InstantiateAndInit == InstantiateBody([init_count EXCEPT ![idx] = @ + 1])

\* the turn constructs the scorer and calls none of its methods
InstantiateStep == InstantiateBody(init_count)

\* ----------------------------------------------------------------- Context

\* utils.Prompt, as far as the Context reads it
Prompt(system, user) == [system |-> system, user |-> user]
P1 == Prompt("be brief", "q1")
P2 == Prompt("be kind", "q1")
\* two batches of the same prompts that differ in order, and element by
\* element in the system prompt alone
BatchPool == {<<P1, P2>>, <<P2, P1>>}
\* the one batch the scorers request in the specification of the construction
StartupBatches == {<<P1, P2>>}

\* Model.get_responses_batched / get_logits_batched / get_residuals_batched:
\* what the subject system answers depends on the batch and on its state
Respond(prompts, version) ==
    [i \in 1..Len(prompts) |->
        [kind |-> "text", system |-> prompts[i].system, user |-> prompts[i].user,
         version |-> version]]

Logits(prompts, version) ==
    [i \in 1..Len(prompts) |->
        [kind |-> "logits", system |-> prompts[i].system, user |-> prompts[i].user,
         version |-> version]]

Residuals(prompts, version) ==
    [i \in 1..Len(prompts) |->
        [kind |-> "residuals", system |-> prompts[i].system,
         user |-> prompts[i].user, version |-> version]]

\* Context.__init__, scorer.py lines 45-48
Context(id) == [id |-> id, cache |-> <<>>]

\* Context._cache_key, scorer.py lines 50-51
cache_key(prompts) ==
    [i \in 1..Len(prompts) |-> <<prompts[i].system, prompts[i].user>>]

WithEntry(f, key, value) ==
    [q \in DOMAIN f \cup {key} |-> IF q = key THEN value ELSE f[q]]

\* a Context without the response cache
uncached_responses(c, prompts, version) ==
    [ctx |-> c, value |-> Respond(prompts, version), forwarded |-> TRUE]

\* Context.get_responses, scorer.py lines 53-60: the Context afterwards, the
\* list returned, and whether the subject system was called
get_responses(c, prompts, version) ==
    LET key == cache_key(prompts)
        miss == key \notin DOMAIN c.cache
        cache == IF miss THEN WithEntry(c.cache, key, Respond(prompts, version))
                 ELSE c.cache
    IN  [ctx |-> [c EXCEPT !.cache = cache], value |-> cache[key],
         forwarded |-> miss]

\* a get_logits that keeps its answers per batch the way get_responses does
cached_logits(c, prompts, version) ==
    LET r == get_responses(c, prompts, version)
    IN  [ctx |-> r.ctx, value |-> Logits(prompts, version),
         forwarded |-> r.forwarded]

\* Context.get_logits, scorer.py lines 62-63
get_logits(c, prompts, version) ==
    [ctx |-> c, value |-> Logits(prompts, version), forwarded |-> TRUE]

\* Context.get_residuals, scorer.py lines 65-66
get_residuals(c, prompts, version) ==
    [ctx |-> c, value |-> Residuals(prompts, version), forwarded |-> TRUE]

Count(f, x) == IF x \in DOMAIN f THEN f[x] ELSE 0
Bump(f, x) == WithEntry(f, x, Count(f, x) + 1)

\* The running scorer method calls one operation of the Context it was given.
CtxOp(kind, prompts, r) ==
    /\ call # NoCall
    /\ ops_left > 0
    /\ ops_left' = ops_left - 1
    /\ ctx' = r.ctx
    /\ ctx_calls' = [ctx_calls EXCEPT ![kind] = @ + 1]
    /\ subject_calls' = IF r.forwarded
                        THEN [subject_calls EXCEPT ![kind] = @ + 1]
                        ELSE subject_calls
    /\ subject_used' = (subject_used \/ r.forwarded)
    /\ last_op' = [kind |-> kind, prompts |-> prompts, hit |-> ~r.forwarded,
                   value |-> r.value, ctx |-> ctx.id]
    /\ UNCHANGED <<loader_vars, input_vars, pc, idx, scorer_configs,
                   scorer_classes, scorers, scorer_instance_labels, scorer_names,
                   baseline_scores, scores, result, error, n_ctx, call,
                   model_version, lookups, n_instantiated, init_count,
                   baseline_count, round_calls, round_ctxs, seen_before,
                   n_rounds,
                   n_rebase>>

CtxGetResponses(prompts) ==
    LET r == get_responses(ctx, prompts, model_version)
    IN  /\ CtxOp("responses", prompts, r)
        /\ asked' = Bump(asked, prompts)
        /\ fetched' = IF r.forwarded THEN Bump(fetched, prompts) ELSE fetched

CtxGetLogits(prompts) ==
    /\ CtxOp("logits", prompts, get_logits(ctx, prompts, model_version))
    /\ UNCHANGED <<asked, fetched>>

CtxGetResiduals(prompts) ==
    /\ CtxOp("residuals", prompts, get_residuals(ctx, prompts, model_version))
    /\ UNCHANGED <<asked, fetched>>

\* ------------------------------------------------------ the scoring phases

\* The Context each phase makes for itself; `current` is the Context of the
\* phase before, which none of them reads.
\* _init_scorers, evaluator.py line 45
init_context(current, id) == Context(id)
\* get_baseline_scores, evaluator.py line 179
baseline_context(current, id) == Context(id)
\* an Evaluator that keeps one Context for all its rounds
kept_context(current, id) == IF current.id = 0 THEN Context(id) ELSE current

\* get_scores, evaluator.py line 167
scores_context(current, id) == Context(id)

\* What changes when a phase takes `c` as its Context and may make `ops`
\* Context operations.
EnterPhase(c, ops) ==
    /\ ctx' = c
    /\ n_ctx' = IF c.id > n_ctx THEN c.id ELSE n_ctx
    /\ round_ctxs' = Append(round_ctxs, c.id)
    /\ ops_left' = ops
    /\ round_calls' = <<>>
    /\ asked' = <<>>
    /\ fetched' = <<>>
    /\ seen_before' = seen_before \cup DOMAIN asked
    /\ last_op' = NoOp
    /\ subject_calls' = NoCalls
    /\ ctx_calls' = NoCalls
    /\ idx' = 1

\* _init_scorers starts, evaluator.py lines 41-45
StartInit(ops) ==
    /\ pc = "init_start"
    /\ pc' = "init"
    /\ EnterPhase(init_context(ctx, n_ctx + 1), ops)
    /\ UNCHANGED <<loader_vars, input_vars, scorer_configs, scorer_classes,
                   scorers, scorer_instance_labels, scorer_names, baseline_scores,
                   scores, result, error, call, model_version, subject_used,
                   lookups, n_instantiated, init_count, baseline_count, n_rounds,
                   n_rebase>>

\* get_baseline_scores starts, evaluator.py lines 38 and 179-180
StartBaseline(ops) ==
    /\ pc = "baseline_start"
    /\ pc' = "baseline"
    /\ scores' = <<>>
    /\ EnterPhase(baseline_context(ctx, n_ctx + 1), ops)
    /\ UNCHANGED <<loader_vars, input_vars, scorer_configs, scorer_classes,
                   scorers, scorer_instance_labels, scorer_names, baseline_scores,
                   result, error, call, model_version, subject_used, lookups,
                   n_instantiated, init_count, baseline_count, n_rounds,
                   n_rebase>>

\* the optimizer calls get_scores(), evaluator.py lines 161-168
GetScores(ops, rounds) ==
    /\ pc = "ready"
    /\ n_rounds + n_rebase < rounds
    /\ pc' = "scoring"
    /\ n_rounds' = n_rounds + 1
    /\ scores' = <<>>
    /\ result' = None
    /\ error' = ""
    /\ EnterPhase(scores_context(ctx, n_ctx + 1), ops)
    /\ UNCHANGED <<loader_vars, input_vars, scorer_configs, scorer_classes,
                   scorers, scorer_instance_labels, scorer_names, baseline_scores,
                   call, model_version, subject_used, lookups, n_instantiated,
                   init_count, baseline_count, n_rebase>>

\* a caller calls the public get_baseline_scores() of the built Evaluator,
\* evaluator.py lines 173-180; nothing stores the list it returns
GetBaselineScores(ops, rounds) ==
    /\ pc = "ready"
    /\ n_rounds + n_rebase < rounds
    /\ pc' = "rebaseline"
    /\ n_rebase' = n_rebase + 1
    /\ scores' = <<>>
    /\ result' = None
    /\ error' = ""
    /\ EnterPhase(baseline_context(ctx, n_ctx + 1), ops)
    /\ UNCHANGED <<loader_vars, input_vars, scorer_configs, scorer_classes,
                   scorers, scorer_instance_labels, scorer_names, baseline_scores,
                   call, model_version, subject_used, lookups, n_instantiated,
                   init_count, baseline_count, n_rounds>>

\* the optimizer modifies the subject system between two rounds
ModelChanges(rounds) ==
    /\ pc = "ready"
    /\ n_rounds + n_rebase < rounds
    /\ model_version <= n_rounds + n_rebase
    /\ model_version' = model_version + 1
    /\ UNCHANGED <<loader_vars, input_vars, round_vars, pc, idx, scorer_configs,
                   scorer_classes, scorers, scorer_instance_labels, scorer_names,
                   baseline_scores, scores, result, error, call, subject_used,
                   lookups, n_instantiated, init_count, baseline_count, n_rounds,
                   n_rebase>>

\* a phase loop that runs init(ctx) again in every round
PhaseOpInitAgain ==
    CASE pc \in {"init", "scoring"} -> "init"
      [] pc \in {"baseline", "rebaseline"} -> "get_baseline_score"
      [] OTHER -> ""

\* a get_scores() that measures the baseline again
PhaseOpBaselineAgain ==
    CASE pc = "init" -> "init"
      [] pc \in {"baseline", "rebaseline", "scoring"} -> "get_baseline_score"
      [] OTHER -> ""

\* the method the loop of the running phase calls
PhaseOp ==
    CASE pc = "init" -> "init"
      [] pc \in {"baseline", "rebaseline"} -> "get_baseline_score"
      [] pc = "scoring" -> "get_score"
      [] OTHER -> ""

\* the loop of the running phase calls the method of scorer idx:
\* evaluator.py lines 47-48, 181-182, 169-170
ScorerEnter ==
    /\ pc \in {"init", "baseline", "scoring", "rebaseline"}
    /\ call = NoCall
    /\ call' = [op |-> PhaseOp, k |-> idx]
    /\ round_calls' = Append(round_calls, [op |-> PhaseOp, k |-> idx, ctx |-> ctx.id])
    /\ init_count' = IF PhaseOp = "init" THEN [init_count EXCEPT ![idx] = @ + 1]
                     ELSE init_count
    /\ baseline_count' = IF PhaseOp = "get_baseline_score"
                         THEN [baseline_count EXCEPT ![idx] = @ + 1]
                         ELSE baseline_count
    /\ UNCHANGED <<loader_vars, input_vars, pc, idx, scorer_configs,
                   scorer_classes, scorers, scorer_instance_labels, scorer_names,
                   baseline_scores, scores, result, error, ctx, n_ctx, ops_left,
                   model_version, subject_used, subject_calls, ctx_calls, lookups,
                   n_instantiated, round_ctxs, asked, fetched, seen_before,
                   last_op, n_rounds,
                   n_rebase>>

\* scorer.Score, scorer.py lines 19-32
Score(name, value) == [name |-> name, value |-> value]

\* what scorer k measures on the subject system in its current state
ScoreValue(k, version) == k + version

\* the running method returns: init returns nothing, the two others a Score
\* that the loop appends; after the last scorer the phase ends
\* (evaluator.py lines 38-39, 171, 183)
ScorerReturn ==
    /\ call # NoCall
    /\ call' = NoCall
    /\ LET last == idx = Len(scorers)
           appended == Append(scores,
                              Score(score_name(scorers[idx]),
                                    ScoreValue(idx, model_version)))
       IN  /\ scores' = IF call.op = "init" THEN scores ELSE appended
           /\ idx' = IF last THEN idx ELSE idx + 1
           /\ pc' = IF ~last THEN pc
                    ELSE IF pc = "init" THEN "baseline_start"
                    ELSE "ready"
           /\ baseline_scores' = IF last /\ pc = "baseline"
                                 THEN Some(IF call.op = "init" THEN scores
                                           ELSE appended)
                                 ELSE baseline_scores
           /\ result' = IF last /\ pc \in {"scoring", "rebaseline"}
                        THEN Some(IF call.op = "init" THEN scores ELSE appended)
                        ELSE result
    /\ UNCHANGED <<loader_vars, input_vars, round_vars, scorer_configs,
                   scorer_classes, scorers, scorer_instance_labels, scorer_names,
                   error, model_version, subject_used, lookups, n_instantiated,
                   init_count, baseline_count, n_rounds,
                   n_rebase>>

\* a phase loop that catches the exception of a scorer and goes on to the
\* next scorer
ScorerRaiseCaught ==
    /\ call # NoCall
    /\ idx < Len(scorers)
    /\ call' = NoCall
    /\ error' = "Exception in scorer"
    /\ idx' = idx + 1
    /\ UNCHANGED <<loader_vars, input_vars, round_vars, pc, scorer_configs,
                   scorer_classes, scorers, scorer_instance_labels, scorer_names,
                   baseline_scores, scores, result, model_version, subject_used,
                   lookups, n_instantiated, init_count, baseline_count, n_rounds,
                   n_rebase>>

\* the running method raises: nothing catches it, so __init__ or get_scores()
\* ends with the exception
ScorerRaise ==
    /\ call # NoCall
    /\ call' = NoCall
    /\ error' = "Exception in scorer"
    /\ pc' = IF pc \in {"scoring", "rebaseline"} THEN "ready" ELSE "failed"
    /\ UNCHANGED <<loader_vars, input_vars, round_vars, idx, scorer_configs,
                   scorer_classes, scorers, scorer_instance_labels, scorer_names,
                   baseline_scores, scores, result, model_version, subject_used,
                   lookups, n_instantiated, init_count, baseline_count, n_rounds,
                   n_rebase>>

\* --------------------------------------------------------------- the views

MinOf(a, b) == IF a < b THEN a ELSE b

\* a get_score_names that leaves out the scorers of direction NOT_SET
objective_score_names ==
    LET kept == SelectSeq([k \in 1..Len(scorers) |-> k],
                          LAMBDA k : scorer_configs[k].direction # "NOT_SET")
    IN  [i \in 1..Len(kept) |->
            format_score_name(scorers[kept[i]], scorer_instance_labels[kept[i]])]

\* Evaluator.get_score_names, evaluator.py lines 60-67
get_score_names ==
    [k \in 1..MinOf(Len(scorers), Len(scorer_instance_labels)) |->
        format_score_name(scorers[k], scorer_instance_labels[k])]

\* [x for cfg, x in zip(cfgs, xs) if cfg.direction != NOT_SET]
RECURSIVE ZipFilter(_, _)
ZipFilter(cfgs, xs) ==
    IF cfgs = <<>> \/ xs = <<>> THEN <<>>
    ELSE (IF Head(cfgs).direction # "NOT_SET" THEN <<Head(xs)>> ELSE <<>>)
         \o ZipFilter(Tail(cfgs), Tail(xs))

\* Evaluator.get_objective_names, evaluator.py lines 185-193
get_objective_names == ZipFilter(scorer_configs, get_score_names)

\* Evaluator.get_objectives, evaluator.py lines 195-201
get_objectives(ss) == ZipFilter(scorer_configs, ss)

\* the loop of get_objective_values, evaluator.py lines 206-209
RECURSIVE ObjectiveValues(_, _)
ObjectiveValues(cfgs, ss) ==
    IF cfgs = <<>> \/ ss = <<>> THEN <<>>
    ELSE (IF Head(cfgs).direction = "NOT_SET" THEN <<>>
          ELSE <<Head(ss).value * Head(cfgs).scale>>)
         \o ObjectiveValues(Tail(cfgs), Tail(ss))

\* an objective-values view that forgets the configured scale
unscaled_values(ss) ==
    LET kept == ZipFilter(scorer_configs, ss)
    IN  [i \in 1..Len(kept) |-> kept[i].value]

\* Evaluator.get_objective_values, evaluator.py lines 203-210
get_objective_values(ss) == ObjectiveValues(scorer_configs, ss)

\* a directions view that reads the live settings.scorers
live_directions ==
    LET kept == SelectSeq(settings_scorers, LAMBDA cfg : cfg.direction # "NOT_SET")
    IN  [k \in 1..Len(kept) |-> kept[k].direction]

\* a directions view that does not filter
all_directions == [k \in 1..Len(scorer_configs) |-> scorer_configs[k].direction]

\* Evaluator.get_objective_directions, evaluator.py lines 212-218
get_objective_directions ==
    LET kept == SelectSeq(scorer_configs, LAMBDA cfg : cfg.direction # "NOT_SET")
    IN  [k \in 1..Len(kept) |-> kept[k].direction]

\* ------------------------------------------------------- the specifications

EvalNext(ops, rounds, batches) ==
    \/ Construct
    \/ LoadStep
    \/ InstantiateStep
    \/ StartInit(ops)
    \/ StartBaseline(ops)
    \/ GetScores(ops, rounds)
    \/ ModelChanges(rounds)
    \/ ScorerEnter
    \/ ScorerReturn
    \/ ScorerRaise
    \/ \E prompts \in batches : CtxGetResponses(prompts)
    \/ \E prompts \in StartupBatches : CtxGetLogits(prompts)
    \/ \E prompts \in StartupBatches : CtxGetResiduals(prompts)

\* An Evaluator is built from any configuration of the pool and then scores
\* a round.
Init ==
    /\ ProcessInit
    /\ EvalInit(SeqsUpTo(ConfigPool, MaxScorers), TreePool)

Next == EvalNext(StartupOps, StartupRounds, StartupBatches)

Spec == Init /\ [][Next]_vars

\* An Evaluator of well-formed scorers runs its rounds, and its caller may
\* ask for the baseline scores again.
RoundInit ==
    /\ ProcessInit
    /\ EvalInit(SeqsUpTo(RoundPool, MaxScorers), {EmptyDict})

\* what a caller can turn a ScorerConfig list into: an entry removed, an
\* entry added, an entry replaced by one of another direction
MutatedLists(list) ==
    {Tail(list), Append(list, list[1]),
     [list EXCEPT ![1] = Config(@.plugin, @.instance_name,
                                IF @.direction = "NOT_SET" THEN "MAXIMIZE"
                                ELSE "NOT_SET", @.scale)]}

\* A caller changes the list settings.scorers of the built Evaluator's
\* settings; self._scorer_configs is the list(...) copy made by
\* evaluator.py line 30.
MutateScorers(rounds) ==
    /\ pc = "ready"
    /\ n_rounds + n_rebase < rounds
    /\ settings_scorers = scorer_configs
    /\ settings_scorers' \in MutatedLists(settings_scorers)
    /\ UNCHANGED <<loader_vars, model_extra, direct, access, refusal,
                   round_vars, pc, idx,
                   scorer_configs, scorer_classes, scorers,
                   scorer_instance_labels, scorer_names, baseline_scores, scores,
                   result, error, call, model_version, subject_used, lookups,
                   n_instantiated, init_count, baseline_count, n_rounds,
                   n_rebase>>

RoundNext ==
    \/ EvalNext(MaxCtxOps, MaxRounds, BatchPool)
    \/ GetBaselineScores(MaxCtxOps, MaxRounds)

\* An Evaluator is built from any configuration of the pool, of scorers that
\* ask the Context for nothing, and scores its rounds while its caller
\* changes settings.scorers.
ViewsNext ==
    \/ Construct
    \/ LoadStep
    \/ InstantiateStep
    \/ StartInit(0)
    \/ StartBaseline(0)
    \/ GetScores(0, StartupRounds)
    \/ ModelChanges(StartupRounds)
    \/ MutateScorers(StartupRounds)
    \/ ScorerEnter
    \/ ScorerReturn
    \/ ScorerRaise

ViewsSpec == Init /\ [][ViewsNext]_vars

RoundSpec == RoundInit /\ [][RoundNext]_vars

\* Some caller loads a plugin class.
CallLoadPlugin(name) ==
    /\ n_loads < MaxLoads
    /\ ApplyLoad(name, LoadPlugin(name, "Scorer", cwd, files, sys_modules, gen))
    /\ n_loads' = n_loads + 1
    /\ UNCHANGED <<cwd, files, n_edits, eval_vars>>

\* The user rewrites, creates or deletes a plugin file between two loads.
EditFile(p, content) ==
    /\ n_edits < MaxEdits
    /\ files[p] # content
    /\ files' = [files EXCEPT ![p] = content]
    /\ n_edits' = n_edits + 1
    /\ UNCHANGED <<cwd, sys_modules, gen, runs, returned, last_load, n_loads,
                   eval_vars>>

\* os.chdir between two loads.
Chdir(d) ==
    /\ n_edits < MaxEdits
    /\ cwd # d
    /\ cwd' = d
    /\ n_edits' = n_edits + 1
    /\ UNCHANGED <<files, sys_modules, gen, runs, returned, last_load, n_loads,
                   eval_vars>>

\* A process loads plugins while the files and the working directory change.
LoaderNext ==
    \/ \E name \in RefPool : CallLoadPlugin(name)
    \/ \E p \in FilePaths, content \in ContentPool : EditFile(p, content)
    \/ \E d \in {WorkDir, OtherDir} : Chdir(d)

LoaderSpecInit ==
    /\ LoaderInit
    /\ EvalInit({<<>>}, {EmptyDict})

LoaderSpec == LoaderSpecInit /\ [][LoaderNext]_vars

\* An Evaluator loads the configured Tuned instances and resolves, validates
\* and instantiates each under any of the configuration trees.
SettingsInit ==
    /\ ProcessInit
    /\ EvalInit(SeqsUpTo(SettingsPool, MaxScorers), SettingsTrees)

\* Scorer classes with and without a settings schema, and what a caller can
\* pass for settings: None or an instance of some settings model
DirectClasses ==
    {ClassOf(KLModule, <<"KLDivergence">>),
     ClassOf([id |-> [path |-> WorkPlug.segs, gen |-> 1], attrs |-> GoodAttrs],
             <<"Plain">>),
     ClassOf([id |-> [path |-> WorkPlug.segs, gen |-> 1], attrs |-> GoodAttrs],
             <<"Tuned">>)}

DirectSettings ==
    {NoSettings,
     [schema |-> "KLSettings", values |-> EmptyDict],
     [schema |-> "TunedSettings", values |-> EmptyDict]}

\* Some caller constructs a scorer itself:
\* scorer_cls(heretic_settings=..., settings=...), scorer.py lines 104-125
NewScorer(cls, settings) ==
    /\ direct' = [cls |-> cls, settings |-> settings,
                  err |-> ScorerNew(cls, settings)]
    /\ direct' # direct
    /\ UNCHANGED <<loader_vars, settings_scorers, model_extra, access,
                   refusal, round_vars, pc, idx, scorer_configs, scorer_classes, scorers,
                   scorer_instance_labels, scorer_names, baseline_scores, scores,
                   result, error, call, model_version, subject_used, lookups,
                   n_instantiated, init_count, baseline_count, n_rounds,
                   n_rebase>>

SettingsNext ==
    \/ Construct
    \/ LoadStep
    \/ InstantiateStep
    \/ \E cls \in DirectClasses, settings \in DirectSettings :
          NewScorer(cls, settings)

SettingsSpec == SettingsInit /\ [][SettingsNext]_vars

\* ------------------------------------------------- what scorer code can do

\* Reading attribute attr of an object scorer code holds: the scorer itself
\* (self.settings of plugin.py line 141, self.heretic_settings of scorer.py
\* line 125, the property model of lines 127-132) or the Context a method
\* is handed (scorer.py lines 46-48). The result is the kind of object the
\* attribute holds; a name the object does not define raises AttributeError.
getattr(obj, attr) ==
    CASE obj = "scorer" /\ attr = "model" -> "AttributeError"
      [] obj = "scorer" /\ attr = "settings" -> "plugin settings"
      [] obj = "scorer" /\ attr = "heretic_settings" -> "Settings"
      [] obj = "ctx" /\ attr = "_model" -> "Model"
      [] obj = "ctx" /\ attr = "_settings" -> "Settings"
      [] obj = "ctx" /\ attr = "_responses_cache" -> "dict"
      [] OTHER -> "AttributeError"

\* Scorer code reads an attribute: of the scorer once it is constructed, of
\* the Context while a method that was handed it runs.
ReadAttr(obj, attr) ==
    /\ \/ obj = "scorer" /\ scorers # <<>>
       \/ obj = "ctx" /\ call # NoCall
    /\ access' = [obj |-> obj, attr |-> attr, result |-> getattr(obj, attr)]
    /\ access' # access
    /\ UNCHANGED <<loader_vars, settings_scorers, model_extra, direct, refusal,
                   round_vars, pc, idx, scorer_configs, scorer_classes, scorers,
                   scorer_instance_labels, scorer_names, baseline_scores, scores,
                   result, error, call, model_version, subject_used, lookups,
                   n_instantiated, init_count, baseline_count, n_rounds,
                   n_rebase>>

\* The running method changes in place the list its last get_responses call
\* returned: the list is the cache's own entry (`return
\* self._responses_cache[key]`, scorer.py line 60), so the entry changes.
MutateReturned ==
    /\ call # NoCall
    /\ last_op.kind = "responses"
    /\ last_op.ctx = ctx.id
    /\ LET key == cache_key(last_op.prompts)
           \* what a list becomes when its holder changes it in place:
           \* list.clear(), list[0] = another string
           InPlace(list) ==
               {<<>>} \cup
               (IF list = <<>> THEN {}
                ELSE {[list EXCEPT ![1] = [@ EXCEPT !.kind = "tampered"]]})
       IN  /\ key \in DOMAIN ctx.cache
           /\ \E list \in InPlace(ctx.cache[key]) :
                 /\ list # ctx.cache[key]
                 /\ ctx' = [ctx EXCEPT !.cache[key] = list]
    /\ UNCHANGED <<loader_vars, input_vars, n_ctx, ops_left, round_calls,
                   round_ctxs, asked, fetched, seen_before, last_op,
                   subject_calls, ctx_calls, pc, idx, scorer_configs,
                   scorer_classes, scorers, scorer_instance_labels, scorer_names,
                   baseline_scores, scores, result, error, call, model_version,
                   subject_used, lookups, n_instantiated, init_count,
                   baseline_count, n_rounds, n_rebase>>

\* An Evaluator of well-formed scorers whose code reads the attributes of
\* the objects it holds and changes the lists it is returned.
ScorerNext ==
    \/ EvalNext(MaxCtxOps, StartupRounds, StartupBatches)
    \/ \E obj \in {"scorer", "ctx"},
          attr \in {"model", "_model", "settings", "heretic_settings",
                    "_settings", "_responses_cache"} : ReadAttr(obj, attr)
    \/ MutateReturned

ScorerSpec == RoundInit /\ [][ScorerNext]_vars

\* ------------------------------------------------------------ RefusalRate
\* Responses and markers are strings of single characters; "rsquo" stands
\* for the typographic apostrophe U+2019.

MaxResponses == 2

\* RefusalRate._is_refusal, refusal_rate.py lines 115-133
is_refusal(response, refusal_markers) ==
    LET IsSpace(c) == c \in {" ", "\t", "\n"}
        \* str.lower on the letters the pools use
        LowerChar(c) ==
            CASE c = "S" -> "s" [] c = "I" -> "i" [] c = "A" -> "a"
              [] OTHER -> c
        lower(str) == [i \in 1..Len(str) |-> LowerChar(str[i])]
        \* str.replace("*", "")
        NoStars(str) == SelectSeq(str, LAMBDA c : c # "*")
        \* str.replace(typographic apostrophe, "'")
        Apostrophes(str) ==
            [i \in 1..Len(str) |-> IF str[i] = "rsquo" THEN "'" ELSE str[i]]
        \* " ".join(str.split()): a character is kept unless it is
        \* whitespace; one space stands for each run of whitespace between
        \* two words
        Kept(str, i) ==
            \/ ~IsSpace(str[i])
            \/ /\ i + 1 <= Len(str)
               /\ ~IsSpace(str[i + 1])
               /\ \E j \in 1..(i - 1) : ~IsSpace(str[j])
        Idx(str) == {i \in 1..Len(str) : Kept(str, i)}
        Nth(str, n) ==
            CHOOSE i \in Idx(str) : Cardinality({j \in Idx(str) : j <= i}) = n
        JoinSplit(str) ==
            [n \in 1..Cardinality(Idx(str)) |->
                IF IsSpace(str[Nth(str, n)]) THEN " " ELSE str[Nth(str, n)]]
        \* `marker in str`
        In(marker, str) ==
            \E i \in 0..(Len(str) - Len(marker)) :
               SubSeq(str, i + 1, i + Len(marker)) = marker
        normal == JoinSplit(Apostrophes(NoStars(lower(response))))
    IN  IF \A i \in 1..Len(response) : IsSpace(response[i]) THEN TRUE
        ELSE \E k \in 1..Len(refusal_markers) :
                In(lower(refusal_markers[k]), normal)

\* The constructor the dataclass decorator gives scorer.Score (scorer.py lines
\* 19-32): each of the four fields is a required argument.
Score_init(kwargs) ==
    IF DOMAIN kwargs = {"name", "value", "cli_display", "md_display"}
    THEN [err |-> "", score |-> kwargs]
    ELSE [err |-> "TypeError: missing required argument", score |-> NoScore]

\* RefusalRate.get_score, refusal_rate.py lines 88-113, on the responses
\* ctx.get_responses(self.prompts) returned, one per prompt. A quotient is
\* the pair <<numerator, denominator>>, the display strings "n/m" likewise.
RefusalRate_get_score(responses, refusal_markers) ==
    LET n_prompts == Len(responses)
        refusal_count ==
            Cardinality({k \in 1..n_prompts :
                            is_refusal(responses[k], refusal_markers)})
    IN  IF n_prompts = 0
        THEN [err |-> "ZeroDivisionError", score |-> NoScore]
        ELSE Score_init([value |-> <<refusal_count, n_prompts>>,
                         cli_display |-> <<refusal_count, n_prompts>>,
                         md_display |-> <<refusal_count, n_prompts>>])

\* A RefusalRate scorer with some refusal_markers setting is asked for its
\* score when the subject system answers its prompts with some responses.
RRGetScore ==
    LET ResponsePool ==
            {<<>>,
             <<" ", "\n">>,
             <<"S", "o", "r", "r", "y">>,
             <<"s", "o", "*", "r", "r", "y">>,
             <<"I", " ", "\t", "*", "w", "o", "n", "rsquo", "t", "*">>,
             <<"a", "i">>,
             <<"o", "k">>}
        MarkerSettings ==
            {<<<<"s", "o", "r", "r", "y">>, <<"i", " ", "w", "o", "n", "'">>>>,
             <<<<"A", "I">>>>}
    IN  \E markers \in MarkerSettings,
           responses \in SeqsUpTo(ResponsePool, MaxResponses) :
           LET r == RefusalRate_get_score(responses, markers)
           IN  /\ refusal' = [markers |-> markers, responses |-> responses,
                              called |-> TRUE, err |-> r.err,
                              score |-> r.score]
               /\ UNCHANGED <<loader_vars, settings_scorers, model_extra,
                              direct, access, round_vars, pc, idx,
                              scorer_configs, scorer_classes, scorers,
                              scorer_instance_labels, scorer_names,
                              baseline_scores, scores, result, error, call,
                              model_version, subject_used, lookups,
                              n_instantiated, init_count, baseline_count,
                              n_rounds, n_rebase>>

RefusalInit ==
    /\ ProcessInit
    /\ EvalInit({<<>>}, {EmptyDict})

RefusalNext == RRGetScore

RefusalSpec == RefusalInit /\ [][RefusalNext]_vars

\* ---------------------------------------------------------- the properties

Built == baseline_scores # None
NumScorers == Len(scorer_configs)

\* the positions of the configs that take part in the optimization, and the
\* position of the i-th of them
Objective == {k \in 1..NumScorers : scorer_configs[k].direction # "NOT_SET"}
NthObjective(i) ==
    CHOOSE k \in Objective : Cardinality({j \in Objective : j <= k}) = i

\* the score lists an Evaluator has returned or retained
ScoreLists ==
    (IF baseline_scores # None THEN {baseline_scores[1]} ELSE {})
    \cup (IF result # None THEN {result[1]} ELSE {})

\* C1: for a built Evaluator and any list of N scores it returned, the names,
\* values and directions views all have length K, the number of configs
\* whose direction is not NOT_SET, and their i-th entries all belong to the
\* i-th such config in configuration order.
C1_ViewsAgree ==
    Built =>
      LET K == Cardinality(Objective)
      IN  /\ Len(get_objective_names) = K
          /\ Len(get_objective_directions) = K
          /\ \A i \in 1..K :
                /\ get_objective_names[i] = get_score_names[NthObjective(i)]
                /\ get_objective_directions[i] =
                       scorer_configs[NthObjective(i)].direction
          /\ \A ss \in ScoreLists :
                /\ Len(ss) = NumScorers
                /\ Len(get_objective_values(ss)) = K
                /\ Len(get_objectives(ss)) = K
                /\ \A i \in 1..K :
                      /\ get_objective_values(ss)[i] =
                             ss[NthObjective(i)].value
                             * scorer_configs[NthObjective(i)].scale
                      /\ get_objectives(ss)[i] = ss[NthObjective(i)]

\* a round has returned two scores, the first of a NOT_SET config
C1_Witness ==
    /\ result # None
    /\ NumScorers = 2
    /\ scorer_configs[1].direction = "NOT_SET"
    /\ scorer_configs[2].direction # "NOT_SET"
    /\ get_objective_names = <<get_score_names[2]>>

InitDone == \A k \in 1..NumScorers : init_count[k] = 1

\* C2: init(ctx) runs at most once per scorer, in configuration order and on
\* the one Context of the initialization phase; every init has completed
\* before the first get_baseline_score or get_score call; no later phase
\* invokes init.
C2_InitOnce ==
    /\ \A k \in DOMAIN init_count : init_count[k] <= 1
    /\ (pc = "init") =>
          /\ Len(round_ctxs) = 1
          /\ round_calls = [j \in 1..Len(round_calls) |->
                               [op |-> "init", k |-> j, ctx |-> round_ctxs[1]]]
          /\ \A k \in 1..NumScorers :
                init_count[k] = (IF k <= Len(round_calls) THEN 1 ELSE 0)
    /\ (Len(round_ctxs) >= 2) =>
          /\ InitDone
          /\ call.op # "init"
          /\ \A j \in DOMAIN round_calls : round_calls[j].op # "init"
    /\ (Built \/ n_rounds > 0 \/ \E k \in DOMAIN baseline_count : baseline_count[k] > 0)
          => InitDone

\* a second get_scores() round is under way on a two-scorer Evaluator
C2_Witness ==
    /\ pc = "scoring"
    /\ n_rounds = 2
    /\ NumScorers = 2
    /\ Len(round_calls) = 2
    /\ InitDone

\* what scorer k reports on the subject system in state `version`
Measured(version) ==
    [k \in 1..NumScorers |->
        Score(score_name(scorers[k]), ScoreValue(k, version))]

\* C3 as stated: over any sequence of the Evaluator's public operations
\* get_baseline_score runs at most once per scorer, exactly once on each
\* scorer of a built Evaluator, and the retained baseline_scores stay what
\* the scorers measured on the unmodified subject system.
C3_BaselineOnce ==
    /\ \A k \in DOMAIN baseline_count : baseline_count[k] <= 1
    /\ Built =>
          /\ \A k \in 1..NumScorers : baseline_count[k] = 1
          /\ baseline_scores = Some(Measured(0))
    /\ (pc = "scoring") =>
          \A j \in DOMAIN round_calls : round_calls[j].op # "get_baseline_score"

\* C3: the construction runs get_baseline_score exactly once on each scorer
\* and retains the list; get_scores() never runs it; the retained
\* baseline_scores stay what the scorers measured on the unmodified subject
\* system through every later operation.  Only a caller's own
\* get_baseline_scores() runs get_baseline_score again, once more per scorer
\* with a Context of its own, and the list it returns replaces nothing.
C3_BaselineRetained ==
    /\ \A k \in DOMAIN baseline_count : baseline_count[k] <= 1 + n_rebase
    /\ ~Built => n_rebase = 0
    /\ Built =>
          /\ \A k \in 1..NumScorers : baseline_count[k] >= 1
          /\ baseline_scores = Some(Measured(0))
    /\ (pc = "scoring") =>
          \A j \in DOMAIN round_calls : round_calls[j].op # "get_baseline_score"
    /\ (pc = "rebaseline") =>
          round_calls = [j \in 1..Len(round_calls) |->
                            [op |-> "get_baseline_score", k |-> j,
                             ctx |-> ctx.id]]

\* after a round and a change of the subject system a caller's
\* get_baseline_scores() returned a list that differs from the retained one
C3_Witness ==
    /\ Built
    /\ pc = "ready"
    /\ n_rounds = 1
    /\ n_rebase = 1
    /\ result # None
    /\ result # baseline_scores
    /\ \A k \in 1..NumScorers : baseline_count[k] = 2

\* C4: a get_scores() round calls get_score once per scorer, in
\* configuration order, always with the one Context created for the round,
\* which no earlier phase used; the list it returns holds the N scores of
\* the N scorers in order; get_score_names() has N entries too, NOT_SET
\* scorers included.
C4_ScoresRound ==
    /\ (pc = "scoring") =>
          /\ round_calls = [j \in 1..Len(round_calls) |->
                               [op |-> "get_score", k |-> j, ctx |-> ctx.id]]
          /\ Len(scores) = Len(round_calls) - (IF call = NoCall THEN 0 ELSE 1)
          /\ ctx.id = round_ctxs[Len(round_ctxs)]
          /\ \A j \in 1..(Len(round_ctxs) - 1) : round_ctxs[j] # ctx.id
    /\ (result # None) =>
          /\ Len(result[1]) = NumScorers
          /\ Len(round_calls) = NumScorers
          /\ \E v \in 0..model_version : result[1] = Measured(v)
    /\ Built =>
          /\ Len(get_score_names) = NumScorers
          /\ \A k \in 1..NumScorers :
                /\ scorers[k].cls = scorer_classes[k]
                /\ get_score_names[k] =
                       format_score_name(scorers[k],
                                         OrNone(scorer_configs[k].instance_name))

\* a round returned both scores of an Evaluator whose second scorer is
\* NOT_SET
C4_Witness ==
    /\ result # None
    /\ NumScorers = 2
    /\ scorer_configs[2].direction = "NOT_SET"
    /\ Len(result[1]) = 2
    /\ Len(get_score_names) = 2
    /\ Len(get_objective_names) = 1

InPhase == pc \in {"init", "baseline", "scoring", "rebaseline"}

\* C5: on one Context, the requests for one batch reach the subject system
\* exactly once however many they are, every request after the first gets
\* the cached list, and batches that differ in an element or in order are
\* fetched separately.
C5_OneFetchPerBatch ==
    /\ DOMAIN fetched = DOMAIN asked
    /\ \A b \in DOMAIN asked : fetched[b] = 1
    /\ subject_calls.responses = Cardinality(DOMAIN asked)
    /\ (last_op.kind = "responses") =>
          /\ last_op.hit = (asked[last_op.prompts] >= 2)
          /\ InPhase => last_op.value = Respond(last_op.prompts, model_version)

\* the second scorer of a round repeats a request and is served the cached
\* list
C5_Witness ==
    /\ last_op.kind = "responses"
    /\ last_op.hit
    /\ asked[last_op.prompts] = 2
    /\ call.k = 2

\* C6: every phase has a Context of its own whose cache starts empty and
\* holds this phase's batches only, so the first request for a batch in a
\* phase reaches the subject system and returns what it answers in its
\* current state, also when an earlier phase requested the same batch.
C6_NoCrossRoundCache ==
    /\ \A i, j \in DOMAIN round_ctxs : i # j => round_ctxs[i] # round_ctxs[j]
    /\ InPhase =>
          /\ ctx.id = round_ctxs[Len(round_ctxs)]
          /\ DOMAIN ctx.cache = {cache_key(b) : b \in DOMAIN asked}
          /\ \A b \in DOMAIN asked :
                ctx.cache[cache_key(b)] = Respond(b, model_version)
    /\ (last_op.kind = "responses" /\ asked[last_op.prompts] = 1) =>
          ~last_op.hit

\* after the subject system changed, a round's first request for a batch an
\* earlier phase had requested is forwarded
C6_Witness ==
    /\ pc = "scoring"
    /\ model_version >= 1
    /\ last_op.kind = "responses"
    /\ ~last_op.hit
    /\ last_op.prompts \in seen_before
    /\ last_op.value = Respond(last_op.prompts, model_version)

\* __init__ got past _load_scorers
Loaded ==
    pc \in {"init_start", "init", "baseline_start", "baseline", "ready",
            "scoring", "rebaseline"}
    \/ (pc = "failed" /\ error = "Exception in scorer")

HasDot(cfg) ==
    /\ cfg.instance_name # None
    /\ \E i \in 1..Len(cfg.instance_name[1]) : cfg.instance_name[1][i] = "."

\* C7: a configured label that contains '.' makes the construction fail in
\* _load_scorers, whatever the scorer's class and the other fields are, and
\* no configuration namespace is looked up for that scorer.
C7_DottedLabelRejected ==
    \A k \in DOMAIN settings_scorers :
       HasDot(settings_scorers[k]) =>
          /\ ~Loaded
          /\ \A j \in DOMAIN lookups : lookups[j].k # k

\* The class a reference of the configured pool names in a process whose
\* working directory is /w: the file or package that defines it and its
\* name; <<>> where the reference names no scorer class.
ClassNamed(ref) ==
    CASE ref = KLRef -> <<"heretic.scorers.kl_divergence", "KLDivergence">>
      [] ref \in {RelPlain, AbsPlain} -> <<"/w/plug.py", "Plain">>
      [] ref = OtherPlain -> <<"/v/plug.py", "Plain">>
      [] ref = RelTuned -> <<"/w/plug.py", "Tuned">>
      [] ref = RelCtor -> <<"/w/plug.py", "Ctor">>
      [] OTHER -> <<>>

\* the label of a config; an empty label is no label
LabelOf(cfg) ==
    IF cfg.instance_name = None \/ cfg.instance_name = Some(<<>>) THEN <<>>
    ELSE cfg.instance_name[1]

SamePair(a, b) ==
    /\ ClassNamed(a.plugin) # <<>>
    /\ ClassNamed(a.plugin) = ClassNamed(b.plugin)
    /\ LabelOf(a) = LabelOf(b)

HasDuplicatePair ==
    \E i, j \in DOMAIN settings_scorers :
       i < j /\ SamePair(settings_scorers[i], settings_scorers[j])

DuplicateError == "ValueError: duplicate scorer instance name"

\* the errors of the checks that _load_scorers makes on one config before
\* it reaches the uniqueness check
EarlierErrors ==
    {"ValueError: append the class name", "ValueError: file form",
     "ValueError: import form", "ImportError: no file", "ImportError: module",
     "ValueError: no class", "TypeError: not a subclass",
     "TypeError: must not define __init__", "ValueError: invalid instance_name",
     "TypeError: namespace is no table", "ValidationError"}

\* the configs of the pool that pass all of these checks under a tree
PassesEarlierChecks(cfg, tree) ==
    /\ cfg.plugin \in {KLRef, RelPlain, AbsPlain, OtherPlain}
    /\ ~(cfg.plugin = KLRef /\ LabelOf(cfg) = LabelX /\ tree = PlainTree)

AllPassEarlierChecks ==
    \A k \in DOMAIN settings_scorers :
       PassesEarlierChecks(settings_scorers[k], model_extra)

\* C8 as stated: two configs of one (class, label) pair always end the
\* construction with the duplicate-instance error.
C8_AlwaysDuplicateError ==
    HasDuplicatePair =>
       /\ ~Loaded
       /\ (pc = "failed") => error = DuplicateError

\* C8: two configs of one (class, label) pair always make the construction
\* fail, so that no Evaluator holds two scorers of one pair; the error is
\* the duplicate-instance error whenever every configured entry passes the
\* checks that come before the uniqueness check, whatever the directions and
\* scales, and the error of the first failing check otherwise.
C8_DuplicateNeverBuilt ==
    /\ HasDuplicatePair =>
          /\ ~Loaded
          /\ (pc = "failed") => error \in EarlierErrors \cup {DuplicateError}
          /\ (pc = "failed" /\ AllPassEarlierChecks) => error = DuplicateError
    /\ \A i, j \in DOMAIN scorers :
          (i < j /\ scorers[i].cls = scorers[j].cls)
             => scorer_instance_labels[i] # scorer_instance_labels[j]

\* the second of two KLDivergence instances labelled x, of another direction
\* and scale than the first, is refused
C8_Witness ==
    /\ pc = "failed"
    /\ error = DuplicateError
    /\ Len(settings_scorers) = 2
    /\ SamePair(settings_scorers[1], settings_scorers[2])
    /\ settings_scorers[1].direction # settings_scorers[2].direction
    /\ settings_scorers[1].scale # settings_scorers[2].scale
    /\ Len(scorers) = 1

\* C9: when the construction fails in _load_scorers (no scorer configured,
\* a malformed or unloadable reference, a contract or settings error, a
\* label with '.', a duplicate key), no Context has been created, no scorer
\* method has run and the subject system has not been called.
C9_ConfigErrorsFirst ==
    (pc = "failed" /\ error # "Exception in scorer") =>
       /\ ~subject_used
       /\ n_ctx = 0
       /\ ctx = NoCtx
       /\ \A k \in DOMAIN init_count : init_count[k] = 0
       /\ \A k \in DOMAIN baseline_count : baseline_count[k] = 0
       /\ round_calls = <<>>
       /\ n_rounds = 0

\* the second config's label holds a '.' and is refused after the first
\* scorer was constructed
C9_Witness ==
    /\ pc = "failed"
    /\ error = "ValueError: invalid instance_name"
    /\ n_instantiated >= 1
    /\ Len(scorers) = 1
    /\ init_count = <<0, 0>>

\* The file a file-form reference of the pool resolves to, by working
\* directory; <<>> for the other references.
Target(name, dir) ==
    CASE name \in {AbsPlain, UpPlain} -> WorkPlug
      [] name = OtherPlain -> OtherPlugPath
      [] name \in {RelPlain, DotRelPlain, RelTuned, RelCtor, RelHelper, RelLimit}
           -> (IF dir = WorkDir THEN WorkPlug ELSE OtherPlugPath)
      [] OTHER -> <<>>

RunsOf(p) == {x \in runs : x.path = p}

\* the last load_plugin call returned a class of a plugin file
FileLoaded == last_load.err = "" /\ Target(last_load.name, last_load.cwd) # <<>>

\* C10 as stated: all classes that loads of one path returned come from one
\* module, the only one whose execution completed.
C10_OneModulePerPath ==
    /\ \A r1, r2 \in returned : r1.path = r2.path => r1.module = r2.module
    /\ \A r \in returned :
          Cardinality({x \in RunsOf(r.path) : x.ok /\ x.module = r.module}) <= 1
    /\ FileLoaded =>
          \E x \in RunsOf(Target(last_load.name, last_load.cwd)) :
             x.ok /\ x.module = last_load.cls.module

\* C10: once an execution of a plugin file has completed, the file is never
\* executed again, and every load_plugin call that returns to its caller
\* outside the file's own code returns a class of that one module, however
\* the path is written and whichever class is named; only a load made by
\* the file's own code during an execution that then raised can have
\* returned a class of another, discarded module.
C10_OneCompletedExecution ==
    /\ \A x, y \in runs :
          (x.path = y.path /\ x.ok) =>
             /\ y.module.gen <= x.module.gen
             /\ y.ok => y = x
    /\ \A r \in returned :
          \E x \in RunsOf(r.path) : x.module = r.module
    /\ \A p \in DOMAIN sys_modules :
          \E x \in RunsOf(p) : x.ok /\ x.module = sys_modules[p].id
    /\ FileLoaded =>
          LET p == Target(last_load.name, last_load.cwd)
          IN  /\ [path |-> p, module |-> last_load.cls.module,
                  name |-> last_load.cls.name] \in returned
              /\ \E x \in RunsOf(p) : x.ok /\ x.module = last_load.cls.module
              /\ p \in DOMAIN sys_modules
              /\ sys_modules[p].id = last_load.cls.module

\* a file loaded under one name for one class is loaded again under a path
\* with ".." for another class, and is not executed again
C10_Witness ==
    /\ last_load.name = UpPlain
    /\ last_load.err = ""
    /\ ~last_load.ran
    /\ \E r \in returned :
          /\ r.path = WorkPlug
          /\ r.name = <<"Tuned">>
          /\ r.module = last_load.cls.module
    /\ Cardinality(RunsOf(WorkPlug)) = 1

\* the file at path p, as it is now, defines class_name as a class deriving
\* Scorer and its top-level code runs to its end
Corrected(fs, p, class_name) ==
    /\ IsFile(fs, p)
    /\ ~fs[p].raises
    /\ fs[p].nested = <<>>
    /\ class_name \in DOMAIN fs[p].attrs
    /\ fs[p].attrs[class_name].kind = "class"
    /\ "Scorer" \in fs[p].attrs[class_name].bases

\* the last load_plugin call executed the file at path p and failed
FailedFirstLoad(p) ==
    /\ last_load.ran
    /\ last_load.err # ""
    /\ Target(last_load.name, last_load.cwd) = p

\* C11: when a load of a file-form reference has executed the file and
\* failed, for whatever cause, the same load made again once the file defines
\* the named class properly succeeds and returns the class the file defines
\* now.
C11_RetryAfterCorrection ==
    [][\A name \in RefPool :
          LET p == Target(name, cwd)
              class_name == RSplit1(name, Colon)[2]
          IN  (/\ p # <<>>
               /\ FailedFirstLoad(p)
               /\ n_loads' = n_loads + 1
               /\ last_load.name = name
               /\ last_load'.name = name
               /\ Corrected(files, p, class_name))
              => /\ last_load'.err = ""
                 /\ last_load'.cls.name = class_name
                 /\ last_load'.cls.attr = files[p].attrs[class_name]]_vars

\* "<name>" without a label, "<name> - <label>" with one
Labelled(name, cfg) ==
    IF LabelOf(cfg) = <<>> THEN name ELSE name \o <<" - ">> \o LabelOf(cfg)

\* C12 as stated: the display name at each position is the name of the
\* scorer's class, followed by " - " and the label where the config has one.
C12_ClassNameDisplayed ==
    Built =>
       /\ \A k \in 1..NumScorers :
             get_score_names[k] = Labelled(scorers[k].cls.name, scorer_configs[k])
       /\ \A i \in 1..Cardinality(Objective) :
             get_objective_names[i] =
                Labelled(scorers[NthObjective(i)].cls.name,
                         scorer_configs[NthObjective(i)])

\* what the score_name property of each scorer class of the model returns
DisplayName(cls) ==
    CASE cls.name = <<"KLDivergence">> -> <<"KL divergence">>
      [] cls.name = <<"RefusalRate">> -> <<"Refusals">>
      [] OTHER -> cls.name

\* C12: the display name at each position of get_score_names(), and of
\* get_objective_names() for the scorers whose direction is set, is the
\* scorer's score_name (the class name unless the class overrides it:
\* "KL divergence" for KLDivergence), followed by " - " and the label where
\* the config has a non-empty one.
C12_ScoreNameDisplayed ==
    Built =>
       /\ Len(get_score_names) = NumScorers
       /\ \A k \in 1..NumScorers :
             get_score_names[k] =
                Labelled(DisplayName(scorers[k].cls), scorer_configs[k])
       /\ Len(get_objective_names) = Cardinality(Objective)
       /\ \A i \in 1..Cardinality(Objective) :
             get_objective_names[i] =
                Labelled(DisplayName(scorers[NthObjective(i)].cls),
                         scorer_configs[NthObjective(i)])

\* a labelled KLDivergence and an unlabelled Plain are displayed, the first
\* of them as an objective
C12_Witness ==
    /\ Built
    /\ NumScorers = 2
    /\ scorers[1].cls.name = <<"KLDivergence">>
    /\ scorers[2].cls.name = <<"Plain">>
    /\ get_score_names = << <<"KL divergence", " - ", "x">>, <<"Plain">> >>
    /\ scorer_configs[1].direction # "NOT_SET"
    /\ get_objective_names[1] = <<"KL divergence", " - ", "x">>

\* a list of N scores a caller may pass, each position with a value of its own
ProbeScores == [k \in 1..NumScorers |-> Score(<<"probe">>, 3 + 4 * k)]

\* C13: for the lists the Evaluator returned and for any list of N scores,
\* get_objective_values holds one value per config whose direction is set,
\* in configuration order: the value of the score at that config's position
\* times that config's scale.  Scores of NOT_SET configs and scales of other
\* configs do not enter.
C13_ValuesScaled ==
    Built =>
       \A ss \in ScoreLists \cup {ProbeScores} :
          get_objective_values(ss) =
             [i \in 1..Cardinality(Objective) |->
                 ss[NthObjective(i)].value * scorer_configs[NthObjective(i)].scale]

\* one MINIMIZE scorer of scale 2: the round's value v gives the tuple (2v)
C13_Witness ==
    /\ Built
    /\ result # None
    /\ NumScorers = 1
    /\ scorer_configs[1].direction = "MINIMIZE"
    /\ scorer_configs[1].scale = 2
    /\ result[1][1].value > 0
    /\ get_objective_values(result[1]) = <<2 * result[1][1].value>>
    /\ get_objective_values(ProbeScores) = <<14>>

\* the table [scorer.<name>] of a tree, NoneNode if there is none
ScorerTable(tree, name) == DictGet(DictGet(tree, <<"scorer">>), name)

Defines(node, field) == node.t = "table" /\ field \in DOMAIN node.kv

\* The record the settings of an instance are to be resolved to: for each
\* field the schema declares, the instance table's value where that table
\* defines the field, else the class table's; two nested tables for one
\* field are joined key by key, the instance table's entry winning.
ExpectedRaw(tree, cls, label) ==
    LET base == ScorerTable(tree, cls.name)
        inst == IF label = <<>> THEN NoneNode
                ELSE ScorerTable(tree, cls.name \o <<"_">> \o label)
        fields == {f \in SchemaFields(cls.attr.schema) :
                      Defines(base, f) \/ Defines(inst, f)}
    IN  Table([f \in fields |->
                 IF ~Defines(inst, f) THEN base.kv[f]
                 ELSE IF Defines(base, f) /\ base.kv[f].t = "table"
                         /\ inst.kv[f].t = "table"
                 THEN Table([k \in DOMAIN base.kv[f].kv \cup DOMAIN inst.kv[f].kv |->
                                IF k \in DOMAIN inst.kv[f].kv THEN inst.kv[f].kv[k]
                                ELSE base.kv[f].kv[k]])
                 ELSE inst.kv[f]])

\* C14: the record resolved for a scorer of a class with a settings schema
\* holds, for each field of the schema, the value of [scorer.<Class>_<label>]
\* where that table defines it, else the value of [scorer.<Class>], else
\* nothing; nested tables of both are merged key by key, the instance's
\* entry winning; keys the schema does not declare are not in the record.
C14_LayeredSettings ==
    \A k \in DOMAIN scorers :
       (scorers[k].cls.attr.schema # NoSchema) =>
          /\ scorers[k].settings.values =
                 ExpectedRaw(model_extra, scorers[k].cls, LabelOf(scorer_configs[k]))
          /\ DOMAIN scorers[k].settings.values.kv
                 \subseteq SchemaFields(scorers[k].cls.attr.schema)

\* instance x is resolved where [scorer.Tuned] sets level, opts.a, opts.b and
\* an undeclared key and [scorer.Tuned_x] sets opts.b, opts.c and an
\* undeclared key
C14_Witness ==
    /\ Len(scorers) >= 1
    /\ LabelOf(scorer_configs[1]) = LabelX
    /\ Defines(ScorerTable(model_extra, <<"Tuned">>), <<"future">>)
    /\ Defines(ScorerTable(model_extra, <<"Tuned", "_", "x">>), <<"extra">>)
    /\ scorers[1].settings.values =
          Table((<<"level">> :> Leaf("low"))
                @@ (<<"opts">> :> Table((<<"a">> :> Leaf("1"))
                                        @@ (<<"b">> :> Leaf("2"))
                                        @@ (<<"c">> :> Leaf("2")))))

\* what every scorer built so far has for settings is what resolving its
\* instance on the tree, as it is now, gives
ResolvedAlone ==
    \A k \in DOMAIN scorers :
       scorers[k].settings.values =
          get_scorer_settings_raw(model_extra, scorers[k].cls,
                                  scorer_instance_labels[k]).raw

SettingsMatch(cls, settings) ==
    IF cls.attr.schema = NoSchema THEN settings = NoSettings
    ELSE settings # NoSettings /\ settings.schema = cls.attr.schema

\* C16: constructing a Scorer succeeds exactly when the settings passed suit
\* the class; every mismatch raises: None or an instance of another model
\* for a class with a schema, any settings at all for a class without one.
C16_MismatchRejected ==
    (direct # NoDirect) =>
       ((direct.err = "") <=> SettingsMatch(direct.cls, direct.settings))

ScorerError == "Exception in scorer"

\* C17: once a scorer method has raised, the Evaluator call that invoked it
\* has ended with that exception: no scorer method is running, the scorers
\* of the round were called in order, each at most once, the raising one
\* last; no score list was returned; a construction that failed this way
\* recorded no baseline_scores and made no get_scores() round, and a failed
\* round leaves the retained baseline_scores as they were.
C17_ScorerErrorAborts ==
    (error = ScorerError) =>
       /\ pc \in {"failed", "ready"}
       /\ call = NoCall
       /\ result = None
       /\ Len(round_calls) = idx
       /\ \A j \in DOMAIN round_calls :
             round_calls[j].k = j /\ round_calls[j].ctx = ctx.id
       /\ Len(scores) = idx - 1 \/ round_calls[idx].op = "init"
       /\ (pc = "failed") =>
             /\ baseline_scores = None
             /\ n_rounds = 0 /\ n_rebase = 0
             /\ round_calls[idx].op \in {"init", "get_baseline_score"}
             /\ \A k \in (idx + 1)..NumScorers :
                   (IF round_calls[idx].op = "init" THEN init_count[k]
                    ELSE baseline_count[k]) = 0
       /\ (pc = "ready") =>
             /\ baseline_scores = Some(Measured(0))
             /\ round_calls[idx].op \in {"get_score", "get_baseline_score"}

\* the first of two scorers raised in a get_scores() round
C17_Witness ==
    /\ error = ScorerError
    /\ pc = "ready"
    /\ n_rounds >= 1
    /\ NumScorers = 2
    /\ round_calls = <<[op |-> "get_score", k |-> 1, ctx |-> ctx.id]>>
    /\ result = None
    /\ Built

ContractError == "TypeError: must not define __init__"

\* the configs whose reference names a class that defines __init__ itself
CtorConfigs ==
    {k \in DOMAIN settings_scorers : settings_scorers[k].plugin = RelCtor}

\* the references of the configured pool that load_plugin resolves to a
\* Scorer class
Loadable == {KLRef, RelPlain, AbsPlain, OtherPlain, RelTuned, RelCtor}

\* no settings were resolved and no scorer was instantiated
NothingInstantiated ==
    /\ n_instantiated = 0
    /\ scorers = <<>>
    /\ lookups = <<>>
    /\ pc \in {"new", "load", "failed"}

\* C18 as stated: a configured class that defines __init__ makes the
\* construction fail with the contract error before anything is
\* instantiated.
C18_AlwaysContractError ==
    (CtorConfigs # {}) =>
       /\ NothingInstantiated
       /\ (pc = "failed") => error = ContractError

\* C18: every configured reference is loaded and contract-validated before
\* any settings are resolved or any scorer is instantiated; so with a
\* configured class that defines __init__ the construction fails and nothing
\* has been instantiated, with the contract error when every reference
\* before the first such class loads, and with the load error of the first
\* reference that does not otherwise.
C18_ContractBeforeInstances ==
    /\ (n_instantiated > 0 \/ lookups # <<>> \/ scorers # <<>>) =>
          /\ Len(scorer_classes) = NumScorers
          /\ \A k \in 1..NumScorers : ~scorer_classes[k].attr.defines_init
    /\ (CtorConfigs # {}) =>
          /\ NothingInstantiated
          /\ (pc = "failed") =>
                LET first == CHOOSE k \in CtorConfigs : \A j \in CtorConfigs : k <= j
                    unloadable == {j \in 1..(first - 1) :
                                      settings_scorers[j].plugin \notin Loadable}
                IN  IF unloadable = {}
                    THEN error = ContractError /\ idx = first
                    ELSE /\ error \in EarlierErrors \ {ContractError}
                         /\ idx \in unloadable /\ \A j \in unloadable : idx <= j

\* the second config's class defines __init__: the first class was loaded
\* and no scorer was made of it
C18_Witness ==
    /\ pc = "failed"
    /\ error = ContractError
    /\ Len(settings_scorers) = 2
    /\ CtorConfigs = {2}
    /\ Len(scorer_classes) = 1
    /\ NothingInstantiated

\* the display name of the class a reference of the pool names, in the
\* process the Evaluators of the model are built in
RefDisplayName(ref) ==
    IF ref = KLRef THEN <<"KL divergence">> ELSE <<ClassNamed(ref)[2]>>

\* the names and the directions of the configs of a list whose direction is
\* set, in the order of the list
ListNames(list) ==
    LET kept == SelectSeq(list, LAMBDA cfg : cfg.direction # "NOT_SET")
    IN  [i \in 1..Len(kept) |-> Labelled(RefDisplayName(kept[i].plugin), kept[i])]

ListDirections(list) ==
    LET kept == SelectSeq(list, LAMBDA cfg : cfg.direction # "NOT_SET")
    IN  [i \in 1..Len(kept) |-> kept[i].direction]

TensorCall ==
    \/ ctx_calls'.logits > ctx_calls.logits
    \/ ctx_calls'.residuals > ctx_calls.residuals

\* C20: every get_logits and every get_residuals call reaches the subject
\* system: on every Context the subject system has served as many logits
\* (residuals) calls as scorers have made, no such call is answered without it, its result is what
\* the subject system answers in its current state whatever the response
\* cache holds, and the call leaves the response cache and the count of
\* forwarded response requests as they were.
C20_TensorsForwarded ==
    /\ [](/\ subject_calls.logits = ctx_calls.logits
          /\ subject_calls.residuals = ctx_calls.residuals
          /\ (last_op.kind \in {"logits", "residuals"}) =>
                /\ ~last_op.hit
                /\ InPhase => last_op.value =
                                 IF last_op.kind = "logits"
                                 THEN Logits(last_op.prompts, model_version)
                                 ELSE Residuals(last_op.prompts, model_version))
    /\ [][TensorCall => /\ ctx'.cache = ctx.cache
                        /\ ctx'.id = ctx.id
                        /\ subject_calls'.responses = subject_calls.responses
                        /\ fetched' = fetched]_vars

\* the one batch was passed to get_logits twice on the first Context and
\* both calls reached the subject system
C20_Witness ==
    /\ n_ctx = 1
    /\ last_op.kind = "logits"
    /\ ctx_calls = [responses |-> 0, logits |-> 2, residuals |-> 0]
    /\ subject_calls.logits = 2
    /\ ctx.cache = <<>>

\* C22: the construction fails with the duplicate scorer instance error only
\* when two configs name the same class (the same name in the same file or
\* package) with the same label; classes that share only their name do not
\* collide.
C22_OnlyRealCollisions ==
    (pc = "failed" /\ error = DuplicateError) => HasDuplicatePair

\* C21: scorer code reaches the subject system through the Context
\* operations only: reading the scorer's attribute model raises in every
\* state of the scorer, and no attribute of the scorer or of the Context it
\* is handed holds the subject system.
C21_SubjectOnlyThroughContext ==
    /\ (access.obj = "scorer" /\ access.attr = "model") =>
          access.result = "AttributeError"
    /\ access.result # "Model"

\* C24: on one Context every get_responses call for a batch returns what the
\* subject system answered for it, whatever the callers did with the lists
\* they were returned.
C24_ResponsesAsAnswered ==
    (InPhase /\ last_op.kind = "responses" /\ last_op.ctx = ctx.id) =>
       last_op.value = Respond(last_op.prompts, model_version)

\* the responses that count as refusals under the markers of the last
\* call: empty or whitespace only, or holding a marker once lowered, freed
\* of emphasis and typographic apostrophes and with single spaces
Refusals ==
    {k \in 1..Len(refusal.responses) :
        is_refusal(refusal.responses[k], refusal.markers)}

\* C23: for a non-empty prompt set RefusalRate.get_score returns a Score
\* with its four fields set, named as the scorer's score_name says, whose
\* value is the number of refusals among the responses divided by the number
\* of prompts.
C23_RefusalScore ==
    (refusal.called /\ refusal.responses # <<>>) =>
       /\ refusal.err = ""
       /\ DOMAIN refusal.score = {"name", "value", "cli_display", "md_display"}
       /\ refusal.score.name = RRModule.attrs[<<"RefusalRate">>].score_name
       /\ refusal.score.value =
             <<Cardinality(Refusals), Len(refusal.responses)>>

====
